---- MODULE Spec2Model ----
(***************************************************************************)
(* Duplicate detection, provider ranking and selection of the article      *)
(* serving functions (daily-articles, all-articles).                       *)
(*                                                                         *)
(* Strings that the code inspects character by character (titles) are     *)
(* sequences of one-character strings; provider names and created_at       *)
(* values are strings whose conversions (toLowerCase, Date parsing) are     *)
(* given on the values the inputs are drawn from.  Similarity scores are    *)
(* exact fractions <<numerator, denominator>>; a threshold is an integer    *)
(* number of hundredths (85 stands for 0.85).  No score of the title        *)
(* corpus below equals 0.75 or 0.85, so the exact comparison with a         *)
(* threshold agrees with the floating-point one.                            *)
(***************************************************************************)
EXTENDS Integers, Sequences, FiniteSets, TLC

VARIABLES
  articles,             \* the list a call is given
  similarityThreshold,  \* the threshold a call is given, in hundredths
  threshold2,           \* the second threshold of a comparison of two calls
  limit,                \* <<>> for null, <<n>> for the number n
  pc,                   \* which calls have been made
  out,                  \* what the first call returned
  out2,                 \* what the second call returned
  similarityParam,      \* the similarity_threshold query parameter
  response,             \* the response of a request handler
  providerScoreCache,   \* module-level Map of duplicate-filter.ts
  dateCache,            \* module-level Map of duplicate-filter.ts
  titleCache,           \* module-level Map of duplicate-filter.ts
  articlesTable,        \* the rows of table articles
  saveCalls,            \* the saveArticle calls in progress
  article_views,        \* the rows of table article_views
  daily_usage,          \* the rows of table daily_usage
  trackCalls,           \* the track-article-view requests in progress
  uniqueKeys,           \* whether the view tables have unique keys
  fetchCall,            \* the locals of a fetchArticlesWithFallback call
  cleanupCall,          \* the locals of a cleanupOldArticles run
  retryCall             \* the locals of a fetchWithRetry call

\* the variables of the request handlers, of the module-level caches of
\* duplicate-filter.ts, and of the database tables with the calls that are
\* writing to them
vars ==
  <<articles, similarityThreshold, threshold2, limit, pc, out, out2,
    similarityParam, response, providerScoreCache, dateCache, titleCache,
    articlesTable, saveCalls, article_views, daily_usage, trackCalls,
    uniqueKeys, fetchCall, cleanupCall, retryCall>>

\* the variables of the calls that fetch, clean up and retry
calls == <<fetchCall, cleanupCall, retryCall>>

\* no such call has started
CallsIdle ==
  /\ fetchCall = <<>>
  /\ cleanupCall = <<>>
  /\ retryCall = <<>>

\* no request is being handled
HandlerIdle ==
  /\ similarityParam = ""
  /\ response = [status |-> 0]

\* the caches as the module is loaded
CachesEmpty ==
  /\ providerScoreCache = <<>>
  /\ dateCache = <<>>
  /\ titleCache = <<>>

\* empty tables and no call writing to them
StoreIdle ==
  /\ articlesTable = <<>>
  /\ saveCalls = <<>>
  /\ article_views = <<>>
  /\ daily_usage = <<>>
  /\ trackCalls = <<>>
  /\ uniqueKeys = TRUE
  /\ CallsIdle

(***************************************************************************)
(* Bounds of the model.                                                    *)
(***************************************************************************)
\* longest input list of the general duplicate-filter specification
MaxArticles == 3
\* longest input list of the threshold-comparison specification
MaxMonoArticles == 4
\* longest input list of the smart-filter specification
MaxSmartArticles == 4
\* longest input list of the diversity specification
MaxDiversifyArticles == 5
MaxLimitArticles == 6
MaxPerProvider == 4
MaxMinorPerProvider == 2
MaxFetched == 3
MaxCallArticles == 2
MaxSaveCalls == 3
MaxTrackCalls == 3
MaxStored == 4
MaxPage == 2

Max(a, b) == IF a >= b THEN a ELSE b
Abs(a) == IF a >= 0 THEN a ELSE 0 - a

(***************************************************************************)
(* JavaScript string operations used on titles.                            *)
(***************************************************************************)
\* String.prototype.toLowerCase, one character
LowerChar(c) ==
  CASE c = "A" -> "a"
    [] c = "B" -> "b"
    [] c = "C" -> "c"
    [] c = "N" -> "n"
    [] OTHER -> c

ToLowerCase(s) == [i \in 1..Len(s) |-> LowerChar(s[i])]

IsWhitespace(c) == c = " "

RECURSIVE TrimStart(_)
TrimStart(s) ==
  IF Len(s) > 0 /\ IsWhitespace(Head(s)) THEN TrimStart(Tail(s)) ELSE s

RECURSIVE TrimEnd(_)
TrimEnd(s) ==
  IF Len(s) > 0 /\ IsWhitespace(s[Len(s)])
    THEN TrimEnd(SubSeq(s, 1, Len(s) - 1))
    ELSE s

\* String.prototype.trim
Trim(s) == TrimEnd(TrimStart(s))

\* title.toLowerCase().trim(); the title cache returns the same value
getNormalizedTitle(title) == Trim(ToLowerCase(title))

(***************************************************************************)
(* distance(s1, s2) of the jaro-winkler package, as an exact fraction.     *)
(* Indices are 1-based here; the package's are 0-based.                    *)
(***************************************************************************)
\* first j in lo..hi with s2[j] unmatched and equal to c; 0 if there is none
RECURSIVE FirstMatch(_, _, _, _, _)
FirstMatch(c, s2, s2Matches, lo, hi) ==
  IF lo > hi THEN 0
  ELSE IF lo \notin s2Matches /\ s2[lo] = c THEN lo
  ELSE FirstMatch(c, s2, s2Matches, lo + 1, hi)

\* the matching loop: <<s1Matches, s2Matches>> as sets of matched positions
RECURSIVE MatchLoop(_, _, _, _, _, _)
MatchLoop(s1, s2, range, i, s1Matches, s2Matches) ==
  IF i > Len(s1) THEN <<s1Matches, s2Matches>>
  ELSE
    LET i0   == i - 1
        low  == IF i0 >= range THEN i0 - range ELSE 0
        high == IF i0 + range <= Len(s2) - 1 THEN i0 + range ELSE Len(s2) - 1
        j    == FirstMatch(s1[i], s2, s2Matches, low + 1, high + 1)
    IN  IF j = 0
          THEN MatchLoop(s1, s2, range, i + 1, s1Matches, s2Matches)
          ELSE MatchLoop(s1, s2, range, i + 1,
                         s1Matches \cup {i}, s2Matches \cup {j})

\* the next matched position of s2 at or after k (one exists: both strings
\* have the same number of matched positions)
RECURSIVE NextMatched(_, _, _)
NextMatched(s2Matches, k, n) ==
  IF k > n THEN k
  ELSE IF k \in s2Matches THEN k
  ELSE NextMatched(s2Matches, k + 1, n)

\* the transposition count: matched characters that differ, in order
RECURSIVE NumTrans(_, _, _, _, _, _)
NumTrans(s1, s2, s1Matches, s2Matches, i, k) ==
  IF i > Len(s1) THEN 0
  ELSE IF i \notin s1Matches
    THEN NumTrans(s1, s2, s1Matches, s2Matches, i + 1, k)
  ELSE
    LET j == NextMatched(s2Matches, k, Len(s2))
        differs == j > Len(s2) \/ s1[i] # s2[j]
    IN  (IF differs THEN 1 ELSE 0)
        + NumTrans(s1, s2, s1Matches, s2Matches, i + 1, j + 1)

\* length of the common prefix, at most 4 characters
RECURSIVE PrefixLen(_, _, _)
PrefixLen(s1, s2, l) ==
  IF l < 4 /\ l < Len(s1) /\ l < Len(s2) /\ s1[l + 1] = s2[l + 1]
    THEN PrefixLen(s1, s2, l + 1)
    ELSE l

\* the Winkler prefix bonus on the Jaro weight num/den
WinklerWeight(s1, s2, num, den) ==
  IF 10 * num > 7 * den
    \* weight + l * 0.1 * (1 - weight), l the common prefix length
    THEN <<10 * num + PrefixLen(s1, s2, 0) * (den - num), 10 * den>>
    ELSE <<num, den>>

\* the Jaro weight (m/|s1| + m/|s2| + (m - numTrans/2)/m) / 3, then the bonus
JaroWeight(s1, s2, m, numTrans) ==
  WinklerWeight(s1, s2,
                2 * m * m * Len(s2) + 2 * m * m * Len(s1)
                  + (2 * m - numTrans) * Len(s1) * Len(s2),
                6 * m * Len(s1) * Len(s2))

\* the score once the matched positions are known
ScoreOfMatches(s1, s2, matches) ==
  IF matches[1] = {} THEN <<0, 1>>
  ELSE JaroWeight(s1, s2, Cardinality(matches[1]),
                  NumTrans(s1, s2, matches[1], matches[2], 1, 1))

distance(s1, s2) ==
  IF Len(s1) = 0 \/ Len(s2) = 0 THEN <<0, 1>>
  ELSE IF s1 = s2 THEN <<1, 1>>
  ELSE ScoreOfMatches(s1, s2,
                      MatchLoop(s1, s2, (Max(Len(s1), Len(s2)) \div 2) - 1,
                                1, {}, {}))

\* score >= threshold, the threshold in hundredths
ScoreAtLeast(score, threshold) == 100 * score[1] >= threshold * score[2]

(***************************************************************************)
(* Provider ranking (daily-articles/services/duplicate-filter.ts).         *)
(***************************************************************************)
PROVIDER_RANKINGS ==
  [p \in {"Telegrafi", "Insajderi", "indeksonline", "gazeta-express",
          "botasot", "gazeta-blic", "default"} |->
     CASE p = "Telegrafi"      -> 6
       [] p = "Insajderi"      -> 5
       [] p = "indeksonline"   -> 4
       [] p = "gazeta-express" -> 3
       [] p = "botasot"        -> 2
       [] p = "gazeta-blic"    -> 1
       [] p = "default"        -> 6]

\* String.prototype.toLowerCase on the provider names of the inputs
ProviderToLowerCase(provider) ==
  CASE provider = "Telegrafi"      -> "telegrafi"
    [] provider = "Insajderi"      -> "insajderi"
    [] provider = "Gazeta-Blic"    -> "gazeta-blic"
    [] provider = "Gazeta Blic"    -> "gazeta blic"
    [] provider = "Koha"           -> "koha"
    [] OTHER -> provider

\* exact match first, then the lower-cased name, then 'default'; the score
\* cache returns the same value
getProviderScore(provider) ==
  IF provider \in DOMAIN PROVIDER_RANKINGS
    THEN PROVIDER_RANKINGS[provider]
    ELSE LET normalizedProvider == ProviderToLowerCase(provider)
         IN  IF normalizedProvider \in DOMAIN PROVIDER_RANKINGS
               THEN PROVIDER_RANKINGS[normalizedProvider]
               ELSE PROVIDER_RANKINGS["default"]

(***************************************************************************)
(* created_at: new Date(dateString).getTime(), in minutes after            *)
(* 2025-01-01T00:00:00Z, on the date strings of the inputs.                *)
(***************************************************************************)
DateGetTime(dateString) ==
  CASE dateString = "2025-01-01T08:00:00Z"      -> 480
    [] dateString = "2025-01-01T09:00:00Z"      -> 540
    [] dateString = "2025-01-01T10:00:00+01:00" -> 540
    [] dateString = "2025-01-01T10:00:00Z"      -> 600

\* the date cache returns the same value
getDateTimestamp(dateString) == DateGetTime(dateString)

\* selectBetterArticle with the priority comparison reversed
selectBetterArticleLowerWins(current, existing) ==
  LET currentScore  == getProviderScore(current.publication_source)
      existingScore == getProviderScore(existing.publication_source)
  IN  IF currentScore # existingScore
        THEN IF currentScore < existingScore THEN current ELSE existing
        ELSE IF getDateTimestamp(current.created_at)
                  > getDateTimestamp(existing.created_at)
               THEN current
               ELSE existing

\* selectBetterArticle with the recency comparison reversed
selectBetterArticleOlderWins(current, existing) ==
  LET currentScore  == getProviderScore(current.publication_source)
      existingScore == getProviderScore(existing.publication_source)
  IN  IF currentScore # existingScore
        THEN IF currentScore > existingScore THEN current ELSE existing
        ELSE IF getDateTimestamp(current.created_at)
                  < getDateTimestamp(existing.created_at)
               THEN current
               ELSE existing

\* which article to keep when duplicates are found
selectBetterArticle(current, existing) ==
  LET currentScore  == getProviderScore(current.publication_source)
      existingScore == getProviderScore(existing.publication_source)
  IN  IF currentScore # existingScore
        THEN IF currentScore > existingScore THEN current ELSE existing
        ELSE IF getDateTimestamp(current.created_at)
                  > getDateTimestamp(existing.created_at)
               THEN current
               ELSE existing

\* lengthDiff > avgLength * 0.5, that is 4 * |l1 - l2| > l1 + l2
isObviouslyDifferent(title1, title2) ==
  4 * Abs(Len(title1) - Len(title2)) > Len(title1) + Len(title2)

\* IsDuplicateTitle with the score read as a distance: small means similar
IsDuplicateTitleAsDistance(currentTitle, existingTitle, threshold) ==
  /\ ~isObviouslyDifferent(currentTitle, existingTitle)
  /\ ~ScoreAtLeast(distance(currentTitle, existingTitle), threshold + 1)

\* the test of one pair of normalized titles inside the inner loop: the
\* length pre-filter passed and distance >= similarityThreshold
IsDuplicateTitle(currentTitle, existingTitle, threshold) ==
  /\ ~isObviouslyDifferent(currentTitle, existingTitle)
  /\ ScoreAtLeast(distance(currentTitle, existingTitle), threshold)

\* !article.title: the title is missing or empty
IsMissingTitle(title) == Len(title) = 0

\* !article.publication_source, !article.created_at ("" stands for "", null
\* and undefined)
IsMissing(s) == s = ""

\* the inner loop: the first index i at which currentTitle is a duplicate of
\* processedTitles[i]; 0 when the loop ends with isDuplicate = false
RECURSIVE FirstDuplicate(_, _, _, _)
FirstDuplicate(currentTitle, processedTitles, threshold, i) ==
  IF i > Len(processedTitles) THEN 0
  ELSE IF IsDuplicateTitle(currentTitle, processedTitles[i], threshold) THEN i
  ELSE FirstDuplicate(currentTitle, processedTitles, threshold, i + 1)

\* FilterStep that puts a new unique article first (unshift for push)
FilterStepUnshifts(uniqueArticles, processedTitles, article, threshold) ==
  IF \/ IsMissingTitle(article.title)
     \/ IsMissing(article.publication_source)
     \/ IsMissing(article.created_at)
    THEN <<uniqueArticles, processedTitles>>
    ELSE
      LET currentTitle == getNormalizedTitle(article.title)
          i == FirstDuplicate(currentTitle, processedTitles, threshold, 1)
      IN  IF i = 0
            THEN <<(<<article>> \o uniqueArticles),
                   (<<currentTitle>> \o processedTitles)>>
            ELSE IF selectBetterArticle(article, uniqueArticles[i]) = article
              THEN <<[uniqueArticles EXCEPT ![i] = article],
                     [processedTitles EXCEPT ![i] = currentTitle]>>
              ELSE <<uniqueArticles, processedTitles>>

\* FilterStep that also pushes the article with which it replaced a duplicate
\* (isDuplicate set only when the existing article is kept)
FilterStepPushesReplacement(uniqueArticles, processedTitles, article, threshold) ==
  IF \/ IsMissingTitle(article.title)
     \/ IsMissing(article.publication_source)
     \/ IsMissing(article.created_at)
    THEN <<uniqueArticles, processedTitles>>
    ELSE
      LET currentTitle == getNormalizedTitle(article.title)
          i == FirstDuplicate(currentTitle, processedTitles, threshold, 1)
      IN  IF i = 0
            THEN <<Append(uniqueArticles, article),
                   Append(processedTitles, currentTitle)>>
            ELSE IF selectBetterArticle(article, uniqueArticles[i]) = article
              THEN <<Append([uniqueArticles EXCEPT ![i] = article], article),
                     Append([processedTitles EXCEPT ![i] = currentTitle],
                            currentTitle)>>
              ELSE <<uniqueArticles, processedTitles>>

\* one iteration of the outer loop: the lists after `article` is processed
FilterStep(uniqueArticles, processedTitles, article, threshold) ==
  IF \/ IsMissingTitle(article.title)
     \/ IsMissing(article.publication_source)
     \/ IsMissing(article.created_at)
    THEN <<uniqueArticles, processedTitles>>
    ELSE
      LET currentTitle == getNormalizedTitle(article.title)
          i == FirstDuplicate(currentTitle, processedTitles, threshold, 1)
      IN  IF i = 0
            THEN <<Append(uniqueArticles, article),
                   Append(processedTitles, currentTitle)>>
            ELSE IF selectBetterArticle(article, uniqueArticles[i]) = article
              THEN <<[uniqueArticles EXCEPT ![i] = article],
                     [processedTitles EXCEPT ![i] = currentTitle]>>
              ELSE <<uniqueArticles, processedTitles>>

\* the outer loop from article k on; its value is uniqueArticles at the end
RECURSIVE FilterLoop(_, _, _, _, _)
FilterLoop(list, threshold, k, uniqueArticles, processedTitles) ==
  IF k > Len(list) THEN uniqueArticles
  ELSE
    LET next == FilterStep(uniqueArticles, processedTitles, list[k], threshold)
    IN  FilterLoop(list, threshold, k + 1, next[1], next[2])

\* what a call returns: a list, or the thrown Error
Returned(list) == [threw |-> FALSE, value |-> list]
Thrown == [threw |-> TRUE, value |-> <<>>]

filterDuplicateArticles(list, threshold) ==
  IF Len(list) = 0 THEN Returned(<<>>)
  ELSE IF Len(list) = 1 THEN Returned(list)
  ELSE IF threshold < 0 \/ threshold > 100 THEN Thrown
  ELSE Returned(FilterLoop(list, threshold, 1, <<>>, <<>>))

(***************************************************************************)
(* Inputs.  The i-th row of an input list carries url i: rows are distinct *)
(* objects, one per URL.                                                    *)
(***************************************************************************)
TitleAba    == <<"a", "b", "a">>
TitleCab    == <<"c", "a", "b">>
TitleCabaUp == <<"C", "a", "b", "a", " ">>
TitleBcba   == <<"b", "c", "b", "a">>
TitleNews   == <<"N", "e", "w", "s", " ", "1">>
TitleNewsSp == <<"n", "e", "w", "s", " ", "1", " ">>

Article(url, title, source, created) ==
  [url |-> url, title |-> title, publication_source |-> source,
   created_at |-> created]

\* the list of the rows f[1], f[2], ..., each <<title, provider, date>>
Rows(f) ==
  [i \in DOMAIN f |-> Article(i, f[i][1], f[i][2], f[i][3])]

\* articles is a list of at most n rows, each <<title, provider, date>> of
\* the set rows
ArticlesFrom(n, rows) ==
  \E k \in 0..n : \E f \in [1..k -> rows] : articles = Rows(f)

NotCalled == [threw |-> FALSE, value |-> <<>>]

(***************************************************************************)
(* Spec: filterDuplicateArticles on lists that may hold malformed rows,    *)
(* with thresholds inside and outside [0, 1], and a second call on the     *)
(* first call's result.                                                     *)
(***************************************************************************)
WellFormedRows ==
  {TitleAba, TitleCab, TitleCabaUp}
    \X {"Telegrafi", "gazeta-blic"}
    \X {"2025-01-01T08:00:00Z", "2025-01-01T09:00:00Z"}

\* a row without title, one without provider, one without creation timestamp
MalformedRows ==
  { <<<<>>, "Telegrafi", "2025-01-01T08:00:00Z">>,
    <<TitleAba, "", "2025-01-01T08:00:00Z">>,
    <<TitleAba, "Telegrafi", "">> }

Init ==
  /\ ArticlesFrom(MaxArticles, WellFormedRows \cup MalformedRows)
  /\ similarityThreshold \in {-10, 0, 85, 100, 110}
  /\ threshold2 = similarityThreshold
  /\ limit = <<>>
  /\ pc = "start"
  /\ out = NotCalled
  /\ out2 = NotCalled
  /\ HandlerIdle
  /\ CachesEmpty
  /\ StoreIdle

CallFilter ==
  /\ pc = "start"
  /\ out' = filterDuplicateArticles(articles, similarityThreshold)
  /\ pc' = "filtered"
  /\ UNCHANGED <<articles, similarityThreshold, threshold2, limit, out2>>
  /\ UNCHANGED <<similarityParam, response, providerScoreCache, dateCache,
                 titleCache, articlesTable, saveCalls, article_views,
                 daily_usage, trackCalls, uniqueKeys>>
  /\ UNCHANGED calls

\* the result of the first call is filtered again with the same threshold
CallFilterAgain ==
  /\ pc = "filtered"
  /\ ~out.threw
  /\ out2' = filterDuplicateArticles(out.value, similarityThreshold)
  /\ pc' = "refiltered"
  /\ UNCHANGED <<articles, similarityThreshold, threshold2, limit, out>>
  /\ UNCHANGED <<similarityParam, response, providerScoreCache, dateCache,
                 titleCache, articlesTable, saveCalls, article_views,
                 daily_usage, trackCalls, uniqueKeys>>
  /\ UNCHANGED calls

Next == CallFilter \/ CallFilterAgain

Spec == Init /\ [][Next]_vars

(***************************************************************************)
(* Properties of filterDuplicateArticles (Spec).                           *)
(***************************************************************************)
ValidThreshold(threshold) == threshold >= 0 /\ threshold <= 100

WellFormed(article) ==
  /\ ~IsMissingTitle(article.title)
  /\ ~IsMissing(article.publication_source)
  /\ ~IsMissing(article.created_at)

\* the engine's similarity check on the titles of two articles
SimilarArticles(a, b, threshold) ==
  IsDuplicateTitle(getNormalizedTitle(a.title), getNormalizedTitle(b.title),
                   threshold)

\* the positions of `list`
Positions(list) == DOMAIN list

\* C1: for a threshold in [0,1], no two distinct items of the returned list
\* have titles that the engine's similarity check judges similar.
C1_NoSimilarPairInResult ==
  (pc = "filtered" /\ ValidThreshold(similarityThreshold) /\ ~out.threw) =>
    \A i, j \in Positions(out.value) :
      i # j => ~SimilarArticles(out.value[i], out.value[j], similarityThreshold)

\* C2: every returned item is an item of the input, fields and url unchanged,
\* and no item is returned more often than the input holds it (once).
C2_NoFabrication ==
  (pc = "filtered" /\ ~out.threw) =>
    /\ \A i \in Positions(out.value) :
         \E k \in Positions(articles) : out.value[i] = articles[k]
    /\ \A i, j \in Positions(out.value) :
         i # j => out.value[i].url # out.value[j].url

\* C2 witness: a later row has replaced an earlier duplicate and another row
\* was kept beside it.
C2_Witness ==
  /\ pc = "filtered"
  /\ Len(articles) = 3
  /\ Len(out.value) = 2
  /\ out.value[1] = articles[3]

\* C3: filtering the result again with the same threshold returns the same
\* items in the same order.
C3_Idempotent ==
  pc = "refiltered" => out2 = out

\* C7: a row missing its title, provider or creation timestamp is never
\* returned, whatever the length of the input, and raises no error.
C7_MalformedNeverReturned ==
  (pc = "filtered" /\ ValidThreshold(similarityThreshold)) =>
    /\ ~out.threw
    /\ \A i \in Positions(out.value) : WellFormed(out.value[i])

\* C8: a threshold outside [0,1] is reported as an error for every input
\* list, and a threshold inside [0,1] never throws.
C8_ThresholdValidatedUpFront ==
  pc = "filtered" => (out.threw <=> ~ValidThreshold(similarityThreshold))

(***************************************************************************)
(* SpecPair: filterDuplicateArticles on two well-formed rows, with known,  *)
(* case-variant and unknown providers and dates in two notations.          *)
(***************************************************************************)
InitPair ==
  /\ \E f \in [1..2 -> {TitleAba, TitleCab, TitleCabaUp, TitleNews, TitleNewsSp}
                       \X {"Telegrafi", "Insajderi", "gazeta-blic",
                           "Gazeta-Blic", "Koha"}
                       \X {"2025-01-01T08:00:00Z", "2025-01-01T09:00:00Z",
                           "2025-01-01T10:00:00+01:00"}] :
       articles = Rows(f)
  /\ similarityThreshold \in {0, 85, 100}
  /\ threshold2 = similarityThreshold
  /\ limit = <<>>
  /\ pc = "start"
  /\ out = NotCalled
  /\ out2 = NotCalled
  /\ HandlerIdle
  /\ CachesEmpty
  /\ StoreIdle

NextPair == CallFilter

SpecPair == InitPair /\ [][NextPair]_vars

Priority(article) == getProviderScore(article.publication_source)

Created(article) == getDateTimestamp(article.created_at)

\* the call was made on two rows whose titles the engine judges similar
SimilarPairFiltered ==
  /\ pc = "filtered"
  /\ Len(articles) = 2
  /\ SimilarArticles(articles[1], articles[2], similarityThreshold)

\* C5: of two well-formed rows with similar titles and different provider
\* priorities exactly one is returned, the one of the higher priority,
\* whichever comes first.
C5_HigherPriorityWins ==
  (SimilarPairFiltered /\ Priority(articles[1]) # Priority(articles[2])) =>
    /\ ~out.threw
    /\ out.value = << IF Priority(articles[1]) > Priority(articles[2])
                        THEN articles[1] ELSE articles[2] >>

\* C5 witness: the second row has the higher priority and replaces the
\* first, which is the more recent of the two.
C5_Witness ==
  /\ SimilarPairFiltered
  /\ Priority(articles[2]) > Priority(articles[1])
  /\ Created(articles[1]) > Created(articles[2])
  /\ out.value = <<articles[2]>>

\* C6: of two well-formed rows with similar titles, equal provider priority
\* and different creation times exactly one is returned, the later one,
\* whichever comes first.
C6_LaterWinsOnEqualPriority ==
  (/\ SimilarPairFiltered
   /\ Priority(articles[1]) = Priority(articles[2])
   /\ Created(articles[1]) # Created(articles[2])) =>
    /\ ~out.threw
    /\ out.value = << IF Created(articles[1]) > Created(articles[2])
                        THEN articles[1] ELSE articles[2] >>

\* C6 witness: two different providers of equal priority, the second row
\* later than the first and returned alone.
C6_Witness ==
  /\ SimilarPairFiltered
  /\ articles[1].publication_source # articles[2].publication_source
  /\ Priority(articles[1]) = Priority(articles[2])
  /\ Created(articles[2]) > Created(articles[1])
  /\ out.value = <<articles[2]>>

(***************************************************************************)
(* SpecMono: filterDuplicateArticles on the same well-formed list with two *)
(* thresholds, similarityThreshold < threshold2.                           *)
(***************************************************************************)
InitMono ==
  /\ ArticlesFrom(MaxMonoArticles,
                  ({TitleAba, TitleBcba, TitleCab, TitleCabaUp}
                     \X {"Telegrafi"} \X {"2025-01-01T08:00:00Z"})
                  \cup {<<TitleCabaUp, "gazeta-blic",
                          "2025-01-01T08:00:00Z">>})
  /\ similarityThreshold \in {0, 75, 85, 100}
  /\ threshold2 \in {0, 75, 85, 100}
  /\ similarityThreshold < threshold2
  /\ limit = <<>>
  /\ pc = "start"
  /\ out = NotCalled
  /\ out2 = NotCalled
  /\ HandlerIdle
  /\ CachesEmpty
  /\ StoreIdle

\* the same list is filtered with the higher threshold
CallFilterAtThreshold2 ==
  /\ pc = "filtered"
  /\ out2' = filterDuplicateArticles(articles, threshold2)
  /\ pc' = "compared"
  /\ UNCHANGED <<articles, similarityThreshold, threshold2, limit, out>>
  /\ UNCHANGED <<similarityParam, response, providerScoreCache, dateCache,
                 titleCache, articlesTable, saveCalls, article_views,
                 daily_usage, trackCalls, uniqueKeys>>
  /\ UNCHANGED calls

NextMono == CallFilter \/ CallFilterAtThreshold2

SpecMono == InitMono /\ [][NextMono]_vars

SMART_PROVIDER_RANKINGS ==
  [p \in {"Telegrafi", "Insajderi", "indeksonline", "gazeta-express",
          "botasot", "gazeta-blic", "default"} |->
     CASE p = "Telegrafi"      -> 6
       [] p = "Insajderi"      -> 5
       [] p = "indeksonline"   -> 4
       [] p = "gazeta-express" -> 3
       [] p = "botasot"        -> 2
       [] p = "gazeta-blic"    -> 1
       [] p = "default"        -> 6]

PROVIDER_ORDER ==
  <<"Telegrafi", "Insajderi", "indeksonline", "gazeta-express", "botasot",
    "gazeta-blic">>

\* PROVIDER_RANKINGS[provider] || 0
SmartPriority(provider) ==
  IF provider \in DOMAIN SMART_PROVIDER_RANKINGS
    THEN SMART_PROVIDER_RANKINGS[provider]
    ELSE 0

\* new Date(b.created_at).getTime() - new Date(a.created_at).getTime()
NewestFirst(a, b) == DateGetTime(b.created_at) - DateGetTime(a.created_at)

\* the comparator of the final sort: provider priority, then date
ByPriorityThenDate(a, b) ==
  LET priorityA == SmartPriority(a.publication_source)
      priorityB == SmartPriority(b.publication_source)
  IN  IF priorityA = priorityB
        THEN DateGetTime(b.created_at) - DateGetTime(a.created_at)
        ELSE priorityB - priorityA

\* the comparator a sort is called with, by name
Compare(comparator, a, b) ==
  IF comparator = "NewestFirst" THEN NewestFirst(a, b)
  ELSE ByPriorityThenDate(a, b)

\* where a stable sort places x in an already sorted list: before the first
\* element that the comparator orders after it
InsertSorted(sorted, x, comparator) ==
  LET after == { i \in 1..Len(sorted) : Compare(comparator, sorted[i], x) > 0 }
      pos   == IF after = {} THEN Len(sorted) + 1
               ELSE CHOOSE i \in after : \A j \in after : i <= j
  IN  SubSeq(sorted, 1, pos - 1) \o <<x>> \o SubSeq(sorted, pos, Len(sorted))

\* Array.prototype.sort with the named comparator (a stable sort)
SortStable(list, comparator) ==
  LET sorted[n \in 0..Len(list)] ==
        IF n = 0 THEN <<>>
        ELSE InsertSorted(sorted[n - 1], list[n], comparator)
  IN  sorted[Len(list)]

\* providerGroups[provider], sorted by date, newest first
ProviderGroup(list, provider) ==
  LET OfProvider(a) == a.publication_source = provider
  IN  SortStable(SelectSeq(list, OfProvider), "NewestFirst")

\* the articles in the order the filtering loop visits them: the providers of
\* PROVIDER_ORDER in order, each provider's articles newest first
RECURSIVE VisitOrder(_, _)
VisitOrder(list, p) ==
  IF p > Len(PROVIDER_ORDER) THEN <<>>
  ELSE ProviderGroup(list, PROVIDER_ORDER[p]) \o VisitOrder(list, p + 1)

isSimilarTitle(title1, title2, threshold) ==
  IF threshold = 0 THEN FALSE
  ELSE IF 4 * Abs(Len(title1) - Len(title2)) > Len(title1) + Len(title2)
    THEN FALSE
  ELSE ScoreAtLeast(distance(title1, title2), threshold)

\* the first index of selectedTitles whose title is similar; 0 if none
RECURSIVE FirstSimilar(_, _, _, _)
FirstSimilar(normalizedTitle, selectedTitles, threshold, i) ==
  IF i > Len(selectedTitles) THEN 0
  ELSE IF isSimilarTitle(normalizedTitle, selectedTitles[i], threshold) THEN i
  ELSE FirstSimilar(normalizedTitle, selectedTitles, threshold, i + 1)

\* result.findIndex(a => a.url === url); 0 stands for -1
RECURSIVE FindIndexByUrl(_, _, _)
FindIndexByUrl(result, url, i) ==
  IF i > Len(result) THEN 0
  ELSE IF result[i].url = url THEN i
  ELSE FindIndexByUrl(result, url, i + 1)

\* Map.prototype.set
MapSet(map, key, value) ==
  [k \in DOMAIN map \cup {key} |-> IF k = key THEN value ELSE map[k]]

\* one article of the filtering loop; st holds result, selectedTitles and
\* titleToArticle
SmartStep(st, article, threshold) ==
  LET normalizedTitle == Trim(ToLowerCase(article.title))
      d == FirstSimilar(normalizedTitle, st.selectedTitles, threshold, 1)
  IN  IF d = 0
        THEN [result         |-> Append(st.result, article),
              selectedTitles |-> Append(st.selectedTitles, normalizedTitle),
              titleToArticle |-> MapSet(st.titleToArticle, normalizedTitle,
                                        article)]
        ELSE
          LET duplicateOf == st.selectedTitles[d]
          IN  IF Len(duplicateOf) = 0 \/ duplicateOf \notin DOMAIN st.titleToArticle
                THEN st
                ELSE
                  LET existingArticle == st.titleToArticle[duplicateOf]
                      existingIndex ==
                        FindIndexByUrl(st.result, existingArticle.url, 1)
                  IN  IF /\ SmartPriority(article.publication_source)
                              > SmartPriority(existingArticle.publication_source)
                         /\ existingIndex # 0
                        THEN [st EXCEPT
                                !.result[existingIndex] = article,
                                !.titleToArticle[duplicateOf] = article]
                        ELSE st

RECURSIVE SmartLoop(_, _, _, _)
SmartLoop(visit, threshold, k, st) ==
  IF k > Len(visit) THEN st.result
  ELSE SmartLoop(visit, threshold, k + 1, SmartStep(st, visit[k], threshold))

\* FirstOtherProvider that never finds another provider (selectedIndex = 0)
FirstOtherProviderNone(remaining, lastProvider, i) == 1

\* the first index of remaining whose provider differs from lastProvider;
\* 1 (selectedIndex = 0) if there is none
RECURSIVE FirstOtherProvider(_, _, _)
FirstOtherProvider(remaining, lastProvider, i) ==
  IF i > Len(remaining) THEN 1
  ELSE IF remaining[i].publication_source # lastProvider THEN i
  ELSE FirstOtherProvider(remaining, lastProvider, i + 1)

\* RemoveAt that always drops the first item (remaining.shift())
RemoveFirst(remaining, i) == Tail(remaining)

\* remaining.splice(i, 1): remaining without its i-th item
RemoveAt(remaining, i) ==
  SubSeq(remaining, 1, i - 1) \o SubSeq(remaining, i + 1, Len(remaining))

\* lastProviders after push(provider) and, beyond maxConsecutive, shift()
PushProvider(lastProviders, provider) ==
  LET pushed == Append(lastProviders, provider)
  IN  IF Len(pushed) > 2 THEN Tail(pushed) ELSE pushed

\* the while loop of diversifyArticles
RECURSIVE DiversifyLoop(_, _, _)
DiversifyLoop(result, remaining, lastProviders) ==
  IF Len(remaining) = 0 THEN result
  ELSE
    LET selectedIndex ==
          IF /\ Len(lastProviders) >= 2
             /\ lastProviders[Len(lastProviders)]
                  = lastProviders[Len(lastProviders) - 1]
            THEN FirstOtherProvider(remaining,
                                    lastProviders[Len(lastProviders)], 1)
            ELSE 1
        selected == remaining[selectedIndex]
    IN  DiversifyLoop(Append(result, selected),
                      RemoveAt(remaining, selectedIndex),
                      PushProvider(lastProviders, selected.publication_source))

diversifyArticles(list) ==
  IF Len(list) <= 3 THEN list ELSE DiversifyLoop(<<>>, list, <<>>)

\* diversified.slice(0, limit) when limit is a positive number
ApplyLimit(list, lim) ==
  IF Len(lim) > 0 /\ lim[1] > 0
    THEN SubSeq(list, 1, IF lim[1] < Len(list) THEN lim[1] ELSE Len(list))
    ELSE list

\* getSmartDailyArticles that cuts to the limit before diversifying
getSmartDailyArticlesLimitFirst(list, threshold, lim) ==
  IF Len(list) = 0 THEN <<>>
  ELSE
    LET result == SmartLoop(VisitOrder(list, 1), threshold, 1,
                            [result |-> <<>>, selectedTitles |-> <<>>,
                             titleToArticle |-> <<>>])
        sorted == SortStable(result, "ByPriorityThenDate")
    IN  diversifyArticles(ApplyLimit(sorted, lim))

getSmartDailyArticles(list, threshold, lim) ==
  IF Len(list) = 0 THEN <<>>
  ELSE
    LET result == SmartLoop(VisitOrder(list, 1), threshold, 1,
                            [result |-> <<>>, selectedTitles |-> <<>>,
                             titleToArticle |-> <<>>])
        sorted == SortStable(result, "ByPriorityThenDate")
    IN  ApplyLimit(diversifyArticles(sorted), lim)

(***************************************************************************)
(* SpecSmart: getSmartDailyArticles with no limit, on well-formed rows of  *)
(* two providers of PROVIDER_ORDER and of "Gazeta Blic", the name under     *)
(* which crawl-gazeta-blic stores its rows.                                 *)
(***************************************************************************)
InitSmart ==
  /\ ArticlesFrom(MaxSmartArticles,
                  {TitleAba, TitleCab, TitleCabaUp}
                    \X {"Telegrafi", "gazeta-blic", "Gazeta Blic"}
                    \X {"2025-01-01T08:00:00Z", "2025-01-01T09:00:00Z"})
  /\ similarityThreshold \in {0, 85}
  /\ threshold2 = similarityThreshold
  /\ limit = <<>>
  /\ pc = "start"
  /\ out = NotCalled
  /\ out2 = NotCalled
  /\ HandlerIdle
  /\ CachesEmpty
  /\ StoreIdle

CallSmart ==
  /\ pc = "start"
  /\ out' = Returned(getSmartDailyArticles(articles, similarityThreshold, limit))
  /\ pc' = "smart"
  /\ UNCHANGED <<articles, similarityThreshold, threshold2, limit, out2>>
  /\ UNCHANGED <<similarityParam, response, providerScoreCache, dateCache,
                 titleCache, articlesTable, saveCalls, article_views,
                 daily_usage, trackCalls, uniqueKeys>>
  /\ UNCHANGED calls

NextSmart == CallSmart

SpecSmart == InitSmart /\ [][NextSmart]_vars

\* C9: with no limit every input article is in the output or has a title
\* similar, at the given threshold, to the title of an article in the output.
C9_EveryArticleKeptOrDuplicate ==
  (pc = "smart" /\ limit = <<>>) =>
    \A k \in Positions(articles) :
      \/ \E i \in Positions(out.value) : out.value[i] = articles[k]
      \/ \E i \in Positions(out.value) :
           isSimilarTitle(Trim(ToLowerCase(articles[k].title)),
                          Trim(ToLowerCase(out.value[i].title)),
                          similarityThreshold)

(***************************************************************************)
(* SpecDiversify: diversifyArticles on lists of rows of three providers.   *)
(***************************************************************************)
InitDiversify ==
  /\ ArticlesFrom(MaxDiversifyArticles,
                  {TitleAba}
                    \X {"Telegrafi", "Insajderi", "gazeta-blic"}
                    \X {"2025-01-01T08:00:00Z"})
  /\ similarityThreshold = 85
  /\ threshold2 = similarityThreshold
  /\ limit = <<>>
  /\ pc = "start"
  /\ out = NotCalled
  /\ out2 = NotCalled
  /\ HandlerIdle
  /\ CachesEmpty
  /\ StoreIdle

CallDiversify ==
  /\ pc = "start"
  /\ out' = Returned(diversifyArticles(articles))
  /\ pc' = "diversified"
  /\ UNCHANGED <<articles, similarityThreshold, threshold2, limit, out2>>
  /\ UNCHANGED <<similarityParam, response, providerScoreCache, dateCache,
                 titleCache, articlesTable, saveCalls, article_views,
                 daily_usage, trackCalls, uniqueKeys>>
  /\ UNCHANGED calls

NextDiversify == CallDiversify

SpecDiversify == InitDiversify /\ [][NextDiversify]_vars

\* C10: the output of diversifyArticles holds exactly the items of its input,
\* each once, and items of the same provider keep their relative order (the
\* url of a row is its position in the input).
C10_DiversifyPermutes ==
  pc = "diversified" =>
    /\ Len(out.value) = Len(articles)
    /\ \A k \in Positions(articles) :
         Cardinality({ i \in Positions(out.value) : out.value[i] = articles[k] }) = 1
    /\ \A i, j \in Positions(out.value) :
         (i < j /\ out.value[i].publication_source = out.value[j].publication_source)
           => out.value[i].url < out.value[j].url

\* C10 witness: a list of more than three rows came out in another order.
C10_Witness ==
  /\ pc = "diversified"
  /\ Len(articles) > 3
  /\ out.value # articles

(***************************************************************************)
(* getSmartDailyArticlesNoFilter (services/smart-filter.ts): round-robin   *)
(* over PROVIDER_ORDER, each provider's articles newest first.             *)
(***************************************************************************)
\* one pass of the for loop over PROVIDER_ORDER at the given index (1-based)
RECURSIVE RoundRobinPass(_, _, _)
RoundRobinPass(list, index, p) ==
  IF p > Len(PROVIDER_ORDER) THEN <<>>
  ELSE
    LET group == ProviderGroup(list, PROVIDER_ORDER[p])
    IN  (IF index <= Len(group) THEN <<group[index]>> ELSE <<>>)
          \o RoundRobinPass(list, index, p + 1)

\* the while (hasMore) loop: it stops after the first pass that pushes nothing
RECURSIVE RoundRobin(_, _)
RoundRobin(list, index) ==
  LET pushed == RoundRobinPass(list, index, 1)
  IN  IF Len(pushed) = 0 THEN <<>>
      ELSE pushed \o RoundRobin(list, index + 1)

getSmartDailyArticlesNoFilter(list, lim) ==
  IF Len(list) = 0 THEN <<>>
  ELSE ApplyLimit(RoundRobin(list, 1), lim)

(***************************************************************************)
(* SpecLimit: getSmartDailyArticles and getSmartDailyArticlesNoFilter,     *)
(* each called with a positive limit and then without one on the same rows.*)
(***************************************************************************)
InitLimit ==
  /\ ArticlesFrom(MaxLimitArticles,
                  {<<TitleAba, "Telegrafi", "2025-01-01T08:00:00Z">>,
                   <<TitleCab, "Telegrafi", "2025-01-01T09:00:00Z">>,
                   <<TitleAba, "Insajderi", "2025-01-01T09:00:00Z">>,
                   <<TitleAba, "gazeta-blic", "2025-01-01T08:00:00Z">>})
  /\ similarityThreshold \in {0, 85}
  /\ threshold2 = similarityThreshold
  /\ limit \in {<<2>>, <<5>>}
  /\ pc = "start"
  /\ out = NotCalled
  /\ out2 = NotCalled
  /\ HandlerIdle
  /\ CachesEmpty
  /\ StoreIdle

\* the same call with limit = null
CallSmartNoLimit ==
  /\ pc = "smart"
  /\ out2' = Returned(getSmartDailyArticles(articles, similarityThreshold, <<>>))
  /\ pc' = "smartAll"
  /\ UNCHANGED <<articles, similarityThreshold, threshold2, limit, out>>
  /\ UNCHANGED <<similarityParam, response, providerScoreCache, dateCache,
                 titleCache, articlesTable, saveCalls, article_views,
                 daily_usage, trackCalls, uniqueKeys>>
  /\ UNCHANGED calls

CallNoFilter ==
  /\ pc = "start"
  /\ out' = Returned(getSmartDailyArticlesNoFilter(articles, limit))
  /\ pc' = "nofilter"
  /\ UNCHANGED <<articles, similarityThreshold, threshold2, limit, out2>>
  /\ UNCHANGED <<similarityParam, response, providerScoreCache, dateCache,
                 titleCache, articlesTable, saveCalls, article_views,
                 daily_usage, trackCalls, uniqueKeys>>
  /\ UNCHANGED calls

\* the same call with limit = null
CallNoFilterNoLimit ==
  /\ pc = "nofilter"
  /\ out2' = Returned(getSmartDailyArticlesNoFilter(articles, <<>>))
  /\ pc' = "nofilterAll"
  /\ UNCHANGED <<articles, similarityThreshold, threshold2, limit, out>>
  /\ UNCHANGED <<similarityParam, response, providerScoreCache, dateCache,
                 titleCache, articlesTable, saveCalls, article_views,
                 daily_usage, trackCalls, uniqueKeys>>
  /\ UNCHANGED calls

NextLimit ==
  \/ CallSmart
  \/ CallSmartNoLimit
  \/ CallNoFilter
  \/ CallNoFilterNoLimit

SpecLimit == InitLimit /\ [][NextLimit]_vars

\* positions k-2, k-1 and k of list share a publication_source
SameProviderRun(list, k) ==
  /\ list[k - 2].publication_source = list[k].publication_source
  /\ list[k - 1].publication_source = list[k].publication_source

\* a run of three of one provider is followed only by that provider
RunsOnlyAtEnd(list) ==
  \A k \in 3..Len(list) :
    SameProviderRun(list, k) =>
      \A j \in (k + 1)..Len(list) :
        list[j].publication_source = list[k].publication_source

\* C11: in every output of getSmartDailyArticles, with or without a limit, if
\* positions k-2, k-1 and k share a publication_source then every later
\* position has that publication_source.
C11_ThirdInRowOnlyWhenNoOther ==
  /\ pc = "smart" => RunsOnlyAtEnd(out.value)
  /\ pc = "smartAll" => RunsOnlyAtEnd(out2.value)

\* C11 witness: an output of two providers that ends in a run of three, the
\* other provider having been moved in front of the run.
C11_Witness ==
  /\ pc = "smartAll"
  /\ Len(out2.value) = 6
  /\ SameProviderRun(out2.value, 6)
  /\ out2.value[3].publication_source # out2.value[6].publication_source
  /\ out2.value[1].publication_source = out2.value[6].publication_source

\* the first L items of list, all of them if there are fewer
FirstItems(list, L) ==
  SubSeq(list, 1, IF L < Len(list) THEN L ELSE Len(list))

\* C14: for a limit L > 0, getSmartDailyArticles(X, t, L) is the first L
\* items of getSmartDailyArticles(X, t, null), and
\* getSmartDailyArticlesNoFilter(X, L) is the first L items of
\* getSmartDailyArticlesNoFilter(X, null).
C14_LimitIsPrefix ==
  (pc \in {"smartAll", "nofilterAll"} /\ Len(limit) > 0 /\ limit[1] > 0) =>
    out.value = FirstItems(out2.value, limit[1])

\* C14 witness: the limit cut a diversified output whose order differs from
\* the sorted one within the first L items.
C14_Witness ==
  /\ pc = "smartAll"
  /\ limit = <<5>>
  /\ Len(out2.value) = 6
  /\ Len(out.value) = 5
  /\ out2.value[3].publication_source # out2.value[2].publication_source
  /\ out2.value[4].publication_source = out2.value[2].publication_source

(***************************************************************************)
(* getTenDailyArticles (daily-articles/services/duplicate-filter.ts).      *)
(***************************************************************************)
targetCount == 10

providerOrder ==
  <<"Telegrafi", "Insajderi", "indeksonline", "gazeta-express", "botasot",
    "gazeta-blic">>

\* providerArticles[provider]: the provider's articles in input order
ProviderArticles(list, provider) ==
  LET OfProvider(a) == a.publication_source = provider
  IN  SelectSeq(list, OfProvider)

\* list.slice(0, n)
SliceTo(list, n) == SubSeq(list, 1, IF n < Len(list) THEN n ELSE Len(list))

\* the mandatory loop that leaves out the last provider of providerOrder
RECURSIVE MandatoryPassSkipsLast(_, _)
MandatoryPassSkipsLast(list, p) ==
  IF p >= Len(providerOrder) THEN <<>>
  ELSE
    LET available == ProviderArticles(list, providerOrder[p])
    IN  (IF Len(available) > 0 THEN <<available[1]>> ELSE <<>>)
          \o MandatoryPassSkipsLast(list, p + 1)

\* the mandatory loop: the first article of every provider that has one
RECURSIVE MandatoryPass(_, _)
MandatoryPass(list, p) ==
  IF p > Len(providerOrder) THEN <<>>
  ELSE
    LET available == ProviderArticles(list, providerOrder[p])
    IN  (IF Len(available) > 0 THEN <<available[1]>> ELSE <<>>)
          \o MandatoryPass(list, p + 1)

\* providerCounts after the mandatory loop
MandatoryCounts(list) ==
  [p \in DOMAIN providerOrder |->
     IF Len(ProviderArticles(list, providerOrder[p])) > 0 THEN 1 ELSE 0]

\* maxForProvider of the second pass
MaxForProvider(provider) == IF provider = "Telegrafi" THEN 3 ELSE 2

\* one for loop over providerOrder inside the while loop; st holds result,
\* providerCounts and addedArticle
RECURSIVE SecondPass(_, _, _)
SecondPass(list, st, p) ==
  IF p > Len(providerOrder) \/ Len(st.result) >= targetCount THEN st
  ELSE
    LET availableArticles == ProviderArticles(list, providerOrder[p])
        currentCount == st.providerCounts[p]
    IN  IF /\ Len(availableArticles) > currentCount
           /\ currentCount < MaxForProvider(providerOrder[p])
          THEN SecondPass(list,
                 [result |-> Append(st.result,
                                    availableArticles[currentCount + 1]),
                  providerCounts |->
                    [st.providerCounts EXCEPT ![p] = currentCount + 1],
                  addedArticle |-> TRUE],
                 p + 1)
          ELSE SecondPass(list, st, p + 1)

\* while (result.length < targetCount), left when a pass adds nothing
RECURSIVE SecondLoop(_, _, _)
SecondLoop(list, result, providerCounts) ==
  IF Len(result) >= targetCount THEN result
  ELSE
    LET st == SecondPass(list,
                         [result |-> result, providerCounts |-> providerCounts,
                          addedArticle |-> FALSE], 1)
    IN  IF ~st.addedArticle THEN st.result
        ELSE SecondLoop(list, st.result, st.providerCounts)

getTenDailyArticles(list) ==
  SliceTo(SecondLoop(list, MandatoryPass(list, 1), MandatoryCounts(list)),
          targetCount)

(***************************************************************************)
(* getOptimizedDailyArticles and getOptimizedDailyArticlesNoFilter         *)
(* (services/optimized-filter.ts).                                         *)
(***************************************************************************)
Min3(a, b, c) ==
  IF a <= b /\ a <= c THEN a ELSE IF b <= c THEN b ELSE c

\* isDuplicateTitle of the optimized filter: title is similar to one of
\* selectedTitles
isDuplicateTitle(title, selectedTitles, threshold) ==
  IF threshold = 0 THEN FALSE
  ELSE \E i \in DOMAIN selectedTitles :
         /\ ~(4 * Abs(Len(title) - Len(selectedTitles[i]))
                > Len(title) + Len(selectedTitles[i]))
         /\ ScoreAtLeast(distance(title, selectedTitles[i]), threshold)

\* the index of the provider's newest article, whatever its title
FirstNonDuplicateNewest(providerArticles, selectedTitles, threshold, i) ==
  IF i > Len(providerArticles) THEN 0 ELSE i

\* the index in providerArticles of the first article whose title is not a
\* duplicate of selectedTitles; 0 if there is none
RECURSIVE FirstNonDuplicate(_, _, _, _)
FirstNonDuplicate(providerArticles, selectedTitles, threshold, i) ==
  IF i > Len(providerArticles) THEN 0
  ELSE IF ~isDuplicateTitle(Trim(ToLowerCase(providerArticles[i].title)),
                            selectedTitles, threshold)
    THEN i
  ELSE FirstNonDuplicate(providerArticles, selectedTitles, threshold, i + 1)

\* st with article pushed for the p-th provider
Select(st, article, p) ==
  [result |-> Append(st.result, article),
   selectedTitles |-> Append(st.selectedTitles,
                             Trim(ToLowerCase(article.title))),
   providerCounts |-> [st.providerCounts EXCEPT ![p] = @ + 1],
   slotsToFill |-> st.slotsToFill - 1]

\* Phase 1: one article per provider, the newest that is no duplicate
RECURSIVE PhaseOne(_, _, _, _)
PhaseOne(list, threshold, st, p) ==
  IF p > Len(PROVIDER_ORDER) THEN st
  ELSE
    LET providerArticles == ProviderGroup(list, PROVIDER_ORDER[p])
        found == FirstNonDuplicate(providerArticles, st.selectedTitles,
                                   threshold, 1)
    IN  IF found = 0 THEN PhaseOne(list, threshold, st, p + 1)
        ELSE PhaseOne(list, threshold,
                      Select(st, providerArticles[found], p), p + 1)

\* maxAdditional with an entry of 3 for every provider
MaxAdditionalThree(provider) == 3

\* maxAdditional[provider] || 1
MaxAdditional(provider) == IF provider = "Telegrafi" THEN 2 ELSE 1

\* the inner for loop of Phase 2: providerArticles[i], 0-based i from
\* currentCount to currentCount + canAddMore - 1
RECURSIVE AddMore(_, _, _, _, _, _)
AddMore(providerArticles, threshold, st, p, i, last) ==
  IF i > last THEN st
  ELSE IF ~isDuplicateTitle(Trim(ToLowerCase(providerArticles[i].title)),
                            st.selectedTitles, threshold)
    THEN AddMore(providerArticles, threshold,
                 Select(st, providerArticles[i], p), p, i + 1, last)
  ELSE AddMore(providerArticles, threshold, st, p, i + 1, last)

\* Phase 2: the for loop over PROVIDER_ORDER
RECURSIVE PhaseTwo(_, _, _, _)
PhaseTwo(list, threshold, st, p) ==
  IF p > Len(PROVIDER_ORDER) \/ st.slotsToFill <= 0 THEN st
  ELSE
    LET providerArticles == ProviderGroup(list, PROVIDER_ORDER[p])
        currentCount == st.providerCounts[p]
        maxForProvider == 1 + MaxAdditional(PROVIDER_ORDER[p])
        canAddMore == Min3(maxForProvider - currentCount,
                           Len(providerArticles) - currentCount,
                           st.slotsToFill)
    IN  IF canAddMore > 0
          THEN PhaseTwo(list, threshold,
                        AddMore(providerArticles, threshold, st, p,
                                currentCount + 1, currentCount + canAddMore),
                        p + 1)
          ELSE PhaseTwo(list, threshold, st, p + 1)

getOptimizedDailyArticles(list, threshold) ==
  LET one == PhaseOne(list, threshold,
                      [result |-> <<>>, selectedTitles |-> <<>>,
                       providerCounts |-> [p \in DOMAIN PROVIDER_ORDER |-> 0],
                       slotsToFill |-> 0], 1)
      remainingSlots == targetCount - Len(one.result)
      two == IF remainingSlots > 0
               THEN PhaseTwo(list, threshold,
                             [one EXCEPT !.slotsToFill = remainingSlots], 1)
               ELSE one
  IN  SliceTo(two.result, targetCount)

\* Phase 2 of the version without filtering; st holds result, providerCounts
\* and added
RECURSIVE FillRemaining(_, _, _, _)
FillRemaining(list, st, remaining, p) ==
  IF p > Len(PROVIDER_ORDER) \/ st.added >= remaining THEN st
  ELSE
    LET group == ProviderArticles(list, PROVIDER_ORDER[p])
        maxForProvider == IF PROVIDER_ORDER[p] = "Telegrafi" THEN 3 ELSE 2
        current == st.providerCounts[p]
        available == Len(group) - current
        canAdd == Min3(maxForProvider - current, available,
                       remaining - st.added)
    IN  IF canAdd > 0
          THEN FillRemaining(list,
                 [result |-> st.result
                               \o SubSeq(group, current + 1, current + canAdd),
                  providerCounts |->
                    [st.providerCounts EXCEPT ![p] = current + canAdd],
                  added |-> st.added + canAdd],
                 remaining, p + 1)
          ELSE FillRemaining(list, st, remaining, p + 1)

getOptimizedDailyArticlesNoFilter(list) ==
  LET result == MandatoryPass(list, 1)
      remaining == targetCount - Len(result)
      filled == IF remaining > 0
                  THEN FillRemaining(list,
                         [result |-> result,
                          providerCounts |-> MandatoryCounts(list),
                          added |-> 0], remaining, 1).result
                  ELSE result
  IN  SliceTo(filled, targetCount)

(***************************************************************************)
(* getOptimizedDailyArticlesV2 (services/optimized-filter.ts).  Its Phase 1 *)
(* is the Phase 1 of getOptimizedDailyArticles, line for line.              *)
(***************************************************************************)
\* the number of keys of providerGroups
ActiveProviders(list) ==
  Cardinality({ list[i].publication_source : i \in DOMAIN list })

\* Math.ceil(a / b) for a >= 0, b > 0
CeilDiv(a, b) == (a + b - 1) \div b

\* maxAdditional[provider] || 1 of Phase 2
MaxAdditionalV2(provider, avgPerProvider) ==
  IF provider = "Telegrafi" THEN Max(2, avgPerProvider)
  ELSE IF provider = "Insajderi" THEN Max(1, avgPerProvider - 1)
  ELSE Max(1, IF avgPerProvider - 1 < 2 THEN avgPerProvider - 1 ELSE 2)

\* the inner for loop of Phase 2: 1-based i, stops after maxToAdd additions
RECURSIVE AddMoreV2(_, _, _, _, _, _, _)
AddMoreV2(providerArticles, threshold, st, p, i, addedFromProvider, maxToAdd) ==
  IF i > Len(providerArticles) \/ addedFromProvider >= maxToAdd THEN st
  ELSE IF ~isDuplicateTitle(Trim(ToLowerCase(providerArticles[i].title)),
                            st.selectedTitles, threshold)
    THEN AddMoreV2(providerArticles, threshold,
                   Select(st, providerArticles[i], p), p, i + 1,
                   addedFromProvider + 1, maxToAdd)
  ELSE AddMoreV2(providerArticles, threshold, st, p, i + 1,
                 addedFromProvider, maxToAdd)

\* Phase 2: the for loop over PROVIDER_ORDER; slotsToFill is remainingSlots
RECURSIVE PhaseTwoV2(_, _, _, _, _)
PhaseTwoV2(list, threshold, st, avgPerProvider, p) ==
  IF p > Len(PROVIDER_ORDER) \/ st.slotsToFill <= 0 THEN st
  ELSE
    LET providerArticles == ProviderGroup(list, PROVIDER_ORDER[p])
        currentCount == st.providerCounts[p]
        maxForProvider == 1 + MaxAdditionalV2(PROVIDER_ORDER[p], avgPerProvider)
        availableArticles == Len(providerArticles) - currentCount
        maxToAdd == Min3(maxForProvider - currentCount, availableArticles,
                         st.slotsToFill)
    IN  IF availableArticles > 0
          THEN PhaseTwoV2(list, threshold,
                          AddMoreV2(providerArticles, threshold, st, p,
                                    currentCount + 1, 0, maxToAdd),
                          avgPerProvider, p + 1)
          ELSE PhaseTwoV2(list, threshold, st, avgPerProvider, p + 1)

\* the urls of result
UsedUrls(result) == { result[i].url : i \in DOMAIN result }

\* the articles of list whose url is not in usedUrls
Unused(list, usedUrls) ==
  LET NotUsed(a) == a.url \notin usedUrls
  IN  SelectSeq(list, NotUsed)

\* relaxedThreshold of Phase 3 when the result holds resultLength items, in
\* hundredths
RelaxedThreshold(resultLength, threshold, target) ==
  IF resultLength >= target - 2 THEN 95 ELSE threshold + 5

\* Phase 3: the loop over unusedArticles, with the relaxed threshold
RECURSIVE PhaseThree(_, _, _, _, _)
PhaseThree(unusedArticles, threshold, target, st, k) ==
  IF k > Len(unusedArticles) \/ Len(st.result) >= target THEN st
  ELSE
    LET relaxedThreshold == RelaxedThreshold(Len(st.result), threshold, target)
    IN  IF ~isDuplicateTitle(Trim(ToLowerCase(unusedArticles[k].title)),
                             st.selectedTitles, relaxedThreshold)
          THEN PhaseThree(unusedArticles, threshold, target,
                 [st EXCEPT
                    !.result = Append(@, unusedArticles[k]),
                    !.selectedTitles =
                      Append(@, Trim(ToLowerCase(unusedArticles[k].title)))],
                 k + 1)
          ELSE PhaseThree(unusedArticles, threshold, target, st, k + 1)

\* Final safety: the unused articles, in input order, up to target
FinalSafety(result, list, target) ==
  IF Len(result) >= target THEN result
  ELSE result \o SliceTo(Unused(list, UsedUrls(result)), target - Len(result))

\* Phase 2 after Phase 1 left one: the slots to fill, the allocation and
\* the loop
PhaseTwoBlock(list, threshold, target, one) ==
  LET remainingSlots == target - Len(one.result)
      avgPerProvider == CeilDiv(remainingSlots, Max(1, ActiveProviders(list)))
  IN  IF remainingSlots > 0
        THEN PhaseTwoV2(list, threshold,
                        [one EXCEPT !.slotsToFill = remainingSlots],
                        avgPerProvider, 1)
        ELSE one

\* Phase 3 after Phase 2 left two: the unused articles, providers in order,
\* sorted newest first, then the loop
PhaseThreeBlock(list, threshold, target, two) ==
  IF Len(two.result) < target
    THEN PhaseThree(SortStable(Unused(VisitOrder(list, 1),
                                      UsedUrls(two.result)),
                               "NewestFirst"),
                    threshold, target, two, 1)
    ELSE two

getOptimizedDailyArticlesV2(list, threshold, target) ==
  IF Len(list) = 0 THEN <<>>
  ELSE IF Len(list) <= target THEN list
  ELSE
    SliceTo(
      FinalSafety(
        PhaseThreeBlock(list, threshold, target,
          PhaseTwoBlock(list, threshold, target,
            PhaseOne(list, threshold,
                     [result |-> <<>>, selectedTitles |-> <<>>,
                      providerCounts |-> [p \in DOMAIN PROVIDER_ORDER |-> 0],
                      slotsToFill |-> 0], 1))).result,
        list, target),
      target)

(***************************************************************************)
(* getOptimizedDailyArticlesNoFilterV2 (services/optimized-filter.ts).     *)
(***************************************************************************)
\* Phase 1: the newest article of every provider that has one
RECURSIVE NewestPerProvider(_, _)
NewestPerProvider(list, p) ==
  IF p > Len(PROVIDER_ORDER) THEN <<>>
  ELSE
    LET group == ProviderGroup(list, PROVIDER_ORDER[p])
    IN  (IF Len(group) > 0 THEN <<group[1]>> ELSE <<>>)
          \o NewestPerProvider(list, p + 1)

\* the number of providers of PROVIDER_ORDER with more than one article
ProvidersWithMore(list) ==
  Cardinality({ p \in DOMAIN PROVIDER_ORDER :
                  Len(ProviderGroup(list, PROVIDER_ORDER[p])) > 1 })

\* Phase 2; st holds result and added, providerCounts[provider] is 1 or 0 as
\* Phase 1 left it
RECURSIVE FillRemainingV2(_, _, _, _, _)
FillRemainingV2(list, st, remaining, baseAllocation, p) ==
  IF p > Len(PROVIDER_ORDER) \/ st.added >= remaining THEN st
  ELSE
    LET group == ProviderGroup(list, PROVIDER_ORDER[p])
        current == IF Len(group) > 0 THEN 1 ELSE 0
        maxForProvider ==
          IF PROVIDER_ORDER[p] = "Telegrafi" THEN Max(3, baseAllocation + 1)
          ELSE IF PROVIDER_ORDER[p] = "Insajderi" THEN Max(2, baseAllocation)
          ELSE 2
        canAdd == Min3(maxForProvider - current, Len(group) - current,
                       remaining - st.added)
    IN  IF canAdd > 0
          THEN FillRemainingV2(list,
                 [result |-> st.result
                               \o SubSeq(group, current + 1, current + canAdd),
                  added |-> st.added + canAdd],
                 remaining, baseAllocation, p + 1)
          ELSE FillRemainingV2(list, st, remaining, baseAllocation, p + 1)

\* Phase 3 after Phase 2 left two: the articles not in result, newest
\* first, for the slots still open
NoFilterPhaseThree(list, remaining, two) ==
  IF remaining > 0 /\ two.added < remaining
    THEN two.result
           \o SliceTo(SortStable(Unused(list, UsedUrls(two.result)),
                                 "NewestFirst"),
                      remaining - two.added)
    ELSE two.result

\* Phases 2 and 3 after Phase 1 left one
NoFilterPhaseTwo(list, remaining, one) ==
  NoFilterPhaseThree(list, remaining,
    IF remaining > 0
      THEN FillRemainingV2(list, [result |-> one, added |-> 0], remaining,
                           remaining \div Max(1, ProvidersWithMore(list)), 1)
      ELSE [result |-> one, added |-> 0])

\* target - result.length after Phase 1, then the other phases
NoFilterAfterPhaseOne(list, target, one) ==
  NoFilterPhaseTwo(list, target - Len(one), one)

getOptimizedDailyArticlesNoFilterV2(list, target) ==
  IF Len(list) <= target THEN list
  ELSE SliceTo(NoFilterAfterPhaseOne(list, target, NewestPerProvider(list, 1)),
               target)

(***************************************************************************)
(* SpecTen: the ten-article selections on lists given by the number of     *)
(* articles of each provider.  The selections group the input by provider  *)
(* before anything else, so the lists are laid out provider after          *)
(* provider; titles and dates repeat along the list with the period of the *)
(* chosen palette.                                                          *)
(***************************************************************************)
\* n copies of x
RECURSIVE Repeat(_, _)
Repeat(x, n) == IF n = 0 THEN <<>> ELSE <<x>> \o Repeat(x, n - 1)

\* counts[p] times the p-th provider, for p = 1, 2, ...
RECURSIVE SourcesOf(_, _)
SourcesOf(counts, p) ==
  IF p > Len(providerOrder) THEN <<>>
  ELSE Repeat(providerOrder[p], counts[p]) \o SourcesOf(counts, p + 1)

Cycle(palette, i) == palette[((i - 1) % Len(palette)) + 1]

TitlePalettes ==
  {<<TitleAba>>, <<TitleAba, TitleCab, TitleCabaUp, TitleBcba, TitleNews>>}

DatePalette == <<"2025-01-01T08:00:00Z", "2025-01-01T09:00:00Z">>

ProviderCountsWithin(maxMajor, maxMinor) ==
  { counts \in [DOMAIN providerOrder -> 0..Max(maxMajor, maxMinor)] :
      /\ \A p \in 1..2 : counts[p] <= maxMajor
      /\ \A p \in 3..Len(providerOrder) : counts[p] <= maxMinor }

InitTen ==
  /\ \E counts \in ProviderCountsWithin(MaxPerProvider, MaxMinorPerProvider) :
       \E palette \in TitlePalettes :
         LET sources == SourcesOf(counts, 1)
         IN  articles = Rows([i \in DOMAIN sources |->
                                <<Cycle(palette, i), sources[i],
                                  Cycle(DatePalette, i)>>])
  /\ similarityThreshold \in {0, 85}
  /\ threshold2 = similarityThreshold
  /\ limit = <<>>
  /\ pc = "start"
  /\ out = NotCalled
  /\ out2 = NotCalled
  /\ HandlerIdle
  /\ CachesEmpty
  /\ StoreIdle

CallTen ==
  /\ pc = "start"
  /\ out' = Returned(getTenDailyArticles(articles))
  /\ pc' = "ten"
  /\ UNCHANGED <<articles, similarityThreshold, threshold2, limit, out2>>
  /\ UNCHANGED <<similarityParam, response, providerScoreCache, dateCache,
                 titleCache, articlesTable, saveCalls, article_views,
                 daily_usage, trackCalls, uniqueKeys>>
  /\ UNCHANGED calls

CallOptimized ==
  /\ pc = "start"
  /\ out' = Returned(getOptimizedDailyArticles(articles, similarityThreshold))
  /\ pc' = "optimized"
  /\ UNCHANGED <<articles, similarityThreshold, threshold2, limit, out2>>
  /\ UNCHANGED <<similarityParam, response, providerScoreCache, dateCache,
                 titleCache, articlesTable, saveCalls, article_views,
                 daily_usage, trackCalls, uniqueKeys>>
  /\ UNCHANGED calls

CallOptimizedNoFilter ==
  /\ pc = "start"
  /\ out' = Returned(getOptimizedDailyArticlesNoFilter(articles))
  /\ pc' = "optimizedNoFilter"
  /\ UNCHANGED <<articles, similarityThreshold, threshold2, limit, out2>>
  /\ UNCHANGED <<similarityParam, response, providerScoreCache, dateCache,
                 titleCache, articlesTable, saveCalls, article_views,
                 daily_usage, trackCalls, uniqueKeys>>
  /\ UNCHANGED calls

CallOptimizedV2 ==
  /\ pc = "start"
  /\ out' = Returned(getOptimizedDailyArticlesV2(articles, similarityThreshold,
                                                 targetCount))
  /\ pc' = "optimizedV2"
  /\ UNCHANGED <<articles, similarityThreshold, threshold2, limit, out2>>
  /\ UNCHANGED <<similarityParam, response, providerScoreCache, dateCache,
                 titleCache, articlesTable, saveCalls, article_views,
                 daily_usage, trackCalls, uniqueKeys>>
  /\ UNCHANGED calls

CallOptimizedNoFilterV2 ==
  /\ pc = "start"
  /\ out' = Returned(getOptimizedDailyArticlesNoFilterV2(articles, targetCount))
  /\ pc' = "optimizedNoFilterV2"
  /\ UNCHANGED <<articles, similarityThreshold, threshold2, limit, out2>>
  /\ UNCHANGED <<similarityParam, response, providerScoreCache, dateCache,
                 titleCache, articlesTable, saveCalls, article_views,
                 daily_usage, trackCalls, uniqueKeys>>
  /\ UNCHANGED calls

NextTen ==
  \/ CallTen
  \/ CallOptimized
  \/ CallOptimizedNoFilter
  \/ CallOptimizedV2

SpecTen == InitTen /\ [][NextTen]_vars

\* the number of items of list whose publication_source is provider
CountOf(list, provider) ==
  Cardinality({ i \in Positions(list) : list[i].publication_source = provider })

\* C15: in getTenDailyArticles, every one of the six known providers that has
\* an article in the input has an article in the output.
C15_EveryProviderRepresented ==
  pc = "ten" =>
    \A p \in DOMAIN providerOrder :
      CountOf(articles, providerOrder[p]) > 0
        => CountOf(out.value, providerOrder[p]) > 0

\* C15 witness: all six providers are in the input, the last one behind more
\* than ten articles of the others, and all six are in the output.
C15_Witness ==
  /\ pc = "ten"
  /\ \A p \in DOMAIN providerOrder : CountOf(articles, providerOrder[p]) > 0
  /\ Len(articles) > targetCount + 1
  /\ CountOf(out.value, "gazeta-blic") > 0

\* C16: getTenDailyArticles returns exactly 10 articles whenever its input
\* holds at least 10 articles, and never more than 10.
C16_ExactlyTen ==
  pc = "ten" =>
    /\ Len(out.value) <= targetCount
    /\ Len(articles) >= targetCount => Len(out.value) = targetCount

\* C17: in every output of getTenDailyArticles, getOptimizedDailyArticles and
\* getOptimizedDailyArticlesNoFilter, Telegrafi has at most 3 articles and
\* every other provider at most 2.
C17_ProviderCaps ==
  pc \in {"ten", "optimized", "optimizedNoFilter"} =>
    \A i \in Positions(out.value) :
      CountOf(out.value, out.value[i].publication_source)
        <= (IF out.value[i].publication_source = "Telegrafi" THEN 3 ELSE 2)

\* C17 witness: the optimized filter, with filtering on, stopped at the cap
\* of Telegrafi, which had more articles to give, and placed other providers.
C17_Witness ==
  /\ pc = "optimized"
  /\ similarityThreshold > 0
  /\ CountOf(articles, "Telegrafi") > 3
  /\ CountOf(out.value, "Telegrafi") = 3
  /\ Len(out.value) > 3
  /\ Len(out.value) < targetCount

\* C12: with filtering on, getOptimizedDailyArticlesV2(X, t, 10) returns
\* exactly min(10, d) items, d being the number of items of X that the
\* duplicate filter keeps at threshold t, and no two returned items have
\* titles that are duplicates of each other at threshold t.
C12_ExactCountWithoutDuplicates ==
  (pc = "optimizedV2" /\ similarityThreshold > 0) =>
    /\ \A i, j \in Positions(out.value) :
         i # j => ~isDuplicateTitle(Trim(ToLowerCase(out.value[i].title)),
                                    <<Trim(ToLowerCase(out.value[j].title))>>,
                                    similarityThreshold)
    /\ LET d == Len(filterDuplicateArticles(articles, similarityThreshold).value)
       IN  Len(out.value) = (IF d < targetCount THEN d ELSE targetCount)

(***************************************************************************)
(* The read endpoints: the daily-articles handler (index.ts) and the smart *)
(* daily-articles handler (index-smart.ts), from the parsing of            *)
(* similarity_threshold to the response.  articles holds the rows the      *)
(* query returned, newest first.                                           *)
(***************************************************************************)
\* the values of the similarity_threshold parameter; "" stands for a request
\* without the parameter
ParamValues ==
  {"", "none", "false", "0", "abc", "true", "0.0", "0.3", "0.49", "0.5",
   "0.8", "0.95", "0.96", "1.5"}

\* Number(similarityParam) in hundredths, <<>> for NaN
NumberOf(param) ==
  CASE param = "0"    -> <<0>>
    [] param = "0.0"  -> <<0>>
    [] param = "0.3"  -> <<30>>
    [] param = "0.49" -> <<49>>
    [] param = "0.5"  -> <<50>>
    [] param = "0.8"  -> <<80>>
    [] param = "0.95" -> <<95>>
    [] param = "0.96" -> <<96>>
    [] param = "1.5"  -> <<150>>
    [] param = ""     -> <<0>>
    [] OTHER          -> <<>>

\* the response to an invalid similarity_threshold
BadRequest ==
  [status |-> 400, error |-> "Invalid similarity_threshold parameter"]

\* the success response; similarity_threshold is <<>> for null
Ok(threshold, data) ==
  [status |-> 200, filtering_applied |-> threshold # <<>>,
   similarity_threshold |-> threshold, data |-> data]

\* the daily-articles handler: validation, selection, response
DailyArticles(param, originalData) ==
  LET disabled == param \in {"none", "false", "0"}
      parsedThreshold == NumberOf(param)
      invalid == /\ ~disabled
                 /\ param # ""
                 /\ \/ parsedThreshold = <<>>
                    \/ parsedThreshold[1] < 50
                    \/ parsedThreshold[1] > 95
      threshold == IF disabled THEN <<>>
                   ELSE IF param # "" THEN parsedThreshold
                   ELSE <<85>>
  IN  IF invalid THEN BadRequest
      ELSE IF threshold # <<>>
        THEN Ok(threshold,
                getOptimizedDailyArticlesV2(originalData, threshold[1],
                                            targetCount))
      ELSE Ok(threshold,
              getOptimizedDailyArticlesNoFilterV2(originalData, targetCount))

\* the smart handler: parsing, selection, response
SmartDailyArticles(param, todaysArticles) ==
  LET parsed == NumberOf(param)
      threshold ==
        IF param \in {"none", "false", "0"} THEN <<>>
        ELSE IF param # "" /\ parsed # <<>> /\ parsed[1] >= 50 /\ parsed[1] <= 95
          THEN parsed
        ELSE <<85>>
  IN  IF threshold # <<>>
        THEN Ok(threshold, getSmartDailyArticles(todaysArticles, threshold[1], <<>>))
        ELSE Ok(threshold, getSmartDailyArticlesNoFilter(todaysArticles, <<>>))

\* rows in the order of the query: created_at descending
NewestFirstOrder(list) ==
  \A i \in 1..(Len(list) - 1) :
    DateGetTime(list[i].created_at) >= DateGetTime(list[i + 1].created_at)

InitHandlers ==
  /\ ArticlesFrom(MaxFetched,
                  {TitleAba, TitleCabaUp}
                    \X {"Telegrafi", "gazeta-blic"}
                    \X {"2025-01-01T08:00:00Z", "2025-01-01T09:00:00Z"})
  /\ NewestFirstOrder(articles)
  /\ similarityParam \in ParamValues
  /\ response = [status |-> 0]
  /\ similarityThreshold = 85
  /\ threshold2 = similarityThreshold
  /\ limit = <<>>
  /\ pc = "start"
  /\ out = NotCalled
  /\ out2 = NotCalled
  /\ CachesEmpty
  /\ StoreIdle

HandleDailyArticles ==
  /\ pc = "start"
  /\ response' = DailyArticles(similarityParam, articles)
  /\ pc' = "dailyArticles"
  /\ UNCHANGED <<articles, similarityThreshold, threshold2, limit, out, out2>>
  /\ UNCHANGED <<similarityParam, providerScoreCache, dateCache, titleCache,
                 articlesTable, saveCalls, article_views, daily_usage,
                 trackCalls, uniqueKeys>>
  /\ UNCHANGED calls

HandleSmartDailyArticles ==
  /\ pc = "start"
  /\ response' = SmartDailyArticles(similarityParam, articles)
  /\ pc' = "smartDailyArticles"
  /\ UNCHANGED <<articles, similarityThreshold, threshold2, limit, out, out2>>
  /\ UNCHANGED <<similarityParam, providerScoreCache, dateCache, titleCache,
                 articlesTable, saveCalls, article_views, daily_usage,
                 trackCalls, uniqueKeys>>
  /\ UNCHANGED calls

NextHandlers == HandleDailyArticles \/ HandleSmartDailyArticles

SpecHandlers == InitHandlers /\ [][NextHandlers]_vars

\* a value that is neither one of none/false/0 nor a number in [0.5, 0.95]
InvalidThreshold(param) ==
  /\ param \notin {"", "none", "false", "0"}
  /\ \/ NumberOf(param) = <<>>
     \/ NumberOf(param)[1] < 50
     \/ NumberOf(param)[1] > 95

\* C13: on every read endpoint an invalid similarity_threshold yields status
\* 400 and a response without article data.
C13_InvalidThresholdIs400 ==
  (pc \in {"dailyArticles", "smartDailyArticles"}
     /\ InvalidThreshold(similarityParam)) =>
    /\ response.status = 400
    /\ "data" \notin DOMAIN response

(***************************************************************************)
(* The engine of duplicate-filter.ts with its module-level caches: every   *)
(* lookup goes through providerScoreCache, dateCache or titleCache, and a  *)
(* miss stores what it computed.  c holds the three caches.                *)
(***************************************************************************)
\* cache.has(key) ? cache.get(key) : computed
Lookup(cache, key, computed) ==
  IF key \in DOMAIN cache THEN cache[key] ELSE computed

\* the cache after a lookup of key: a miss stores computed
Store(cache, key, computed) ==
  IF key \in DOMAIN cache THEN cache ELSE MapSet(cache, key, computed)

\* a date cache keyed by the day of the date string only
DateCacheKeyDayOnly(dateString) == "2025-01-01"

\* the key under which getDateTimestamp caches: the date string itself
DateCacheKey(dateString) == dateString

\* getProviderScore through providerScoreCache
ScoreWith(c, provider) ==
  Lookup(c.providerScore, provider, getProviderScore(provider))

\* getDateTimestamp through dateCache
TimestampWith(c, dateString) ==
  Lookup(c.date, DateCacheKey(dateString), DateGetTime(dateString))

\* c after getProviderScore(provider)
AfterScore(c, provider) ==
  [c EXCEPT !.providerScore = Store(@, provider, getProviderScore(provider))]

\* c after getDateTimestamp(dateString)
AfterTimestamp(c, dateString) ==
  [c EXCEPT !.date = Store(@, DateCacheKey(dateString),
                           DateGetTime(dateString))]

\* c after getNormalizedTitle(title)
AfterTitle(c, title) ==
  [c EXCEPT !.title = Store(@, title, Trim(ToLowerCase(title)))]

\* selectBetterArticle with the caches c: the article it returns and the
\* caches it leaves
selectBetterArticleWith(c, current, existing) ==
  LET currentScore == ScoreWith(c, current.publication_source)
      c1 == AfterScore(c, current.publication_source)
      existingScore == ScoreWith(c1, existing.publication_source)
      c2 == AfterScore(c1, existing.publication_source)
  IN  IF currentScore # existingScore
        THEN [article |-> IF currentScore > existingScore
                            THEN current ELSE existing,
              caches |-> c2]
        ELSE
          LET currentTimestamp == TimestampWith(c2, current.created_at)
              c3 == AfterTimestamp(c2, current.created_at)
              existingTimestamp == TimestampWith(c3, existing.created_at)
              c4 == AfterTimestamp(c3, existing.created_at)
          IN  [article |-> IF currentTimestamp > existingTimestamp
                             THEN current ELSE existing,
               caches |-> c4]

\* one article of the outer loop; st holds uniqueArticles, processedTitles
\* and caches
FilterStepWith(st, article, threshold) ==
  IF \/ IsMissingTitle(article.title)
     \/ IsMissing(article.publication_source)
     \/ IsMissing(article.created_at)
    THEN st
    ELSE
      LET currentTitle == Lookup(st.caches.title, article.title,
                                 Trim(ToLowerCase(article.title)))
          c == AfterTitle(st.caches, article.title)
          i == FirstDuplicate(currentTitle, st.processedTitles, threshold, 1)
      IN  IF i = 0
            THEN [uniqueArticles |-> Append(st.uniqueArticles, article),
                  processedTitles |-> Append(st.processedTitles, currentTitle),
                  caches |-> c]
            ELSE
              LET better == selectBetterArticleWith(c, article,
                                                    st.uniqueArticles[i])
              IN  IF better.article = article
                    THEN [uniqueArticles |->
                            [st.uniqueArticles EXCEPT ![i] = article],
                          processedTitles |->
                            [st.processedTitles EXCEPT ![i] = currentTitle],
                          caches |-> better.caches]
                    ELSE [st EXCEPT !.caches = better.caches]

RECURSIVE FilterLoopWith(_, _, _, _)
FilterLoopWith(list, threshold, k, st) ==
  IF k > Len(list) THEN st
  ELSE FilterLoopWith(list, threshold, k + 1,
                      FilterStepWith(st, list[k], threshold))

\* filterDuplicateArticles called with the caches c: what it returns and the
\* caches it leaves
filterDuplicateArticlesWith(c, list, threshold) ==
  IF Len(list) = 0 THEN [result |-> Returned(<<>>), caches |-> c]
  ELSE IF Len(list) = 1 THEN [result |-> Returned(list), caches |-> c]
  ELSE IF threshold < 0 \/ threshold > 100
    THEN [result |-> Thrown, caches |-> c]
  ELSE
    LET st == FilterLoopWith(list, threshold, 1,
                             [uniqueArticles |-> <<>>,
                              processedTitles |-> <<>>, caches |-> c])
    IN  [result |-> Returned(st.uniqueArticles), caches |-> st.caches]

\* the comparator of sortArticlesByPriority with the caches c
ByScoreThenDateWith(c, a, b) ==
  LET priorityA == ScoreWith(c, a.publication_source)
      priorityB == ScoreWith(c, b.publication_source)
  IN  IF priorityA # priorityB THEN priorityB - priorityA
      ELSE TimestampWith(c, b.created_at) - TimestampWith(c, a.created_at)

\* Array.prototype.sort (stable) with that comparator
SortByScoreThenDateWith(c, list) ==
  LET Place(sorted, x) ==
        LET after == { i \in 1..Len(sorted) :
                         ByScoreThenDateWith(c, sorted[i], x) > 0 }
            pos   == IF after = {} THEN Len(sorted) + 1
                     ELSE CHOOSE i \in after : \A j \in after : i <= j
        IN  SubSeq(sorted, 1, pos - 1) \o <<x>>
              \o SubSeq(sorted, pos, Len(sorted))
      sorted[n \in 0..Len(list)] ==
        IF n = 0 THEN <<>> ELSE Place(sorted[n - 1], list[n])
  IN  sorted[Len(list)]

\* the caches after the sort: the comparator looks up the score of every
\* article it is given (all of them, for two or more) and the timestamp of
\* every article it compares with one of equal score
RECURSIVE CachesAfterSort(_, _, _)
CachesAfterSort(c, list, k) ==
  IF k > Len(list) \/ Len(list) < 2 THEN c
  ELSE
    LET a == list[k]
        peer == \E j \in DOMAIN list :
                  /\ j # k
                  /\ ScoreWith(c, list[j].publication_source)
                       = ScoreWith(c, a.publication_source)
        c1 == AfterScore(c, a.publication_source)
    IN  CachesAfterSort(IF peer THEN AfterTimestamp(c1, a.created_at) ELSE c1,
                        list, k + 1)

\* sortArticlesByPriority called with the caches c
sortArticlesByPriorityWith(c, list) ==
  [result |-> Returned(SortByScoreThenDateWith(c, list)),
   caches |-> CachesAfterSort(c, list, 1)]

Caches == [providerScore |-> providerScoreCache, date |-> dateCache,
           title |-> titleCache]

NoCaches == [providerScore |-> <<>>, date |-> <<>>, title |-> <<>>]

(***************************************************************************)
(* SpecCaches: any sequence of calls of filterDuplicateArticles,           *)
(* sortArticlesByPriority and clearCaches in one process.                  *)
(***************************************************************************)
CallRows ==
  {<<TitleAba, "Telegrafi", "2025-01-01T08:00:00Z">>,
   <<TitleAba, "Telegrafi", "2025-01-01T09:00:00Z">>,
   <<TitleCabaUp, "Gazeta-Blic", "2025-01-01T08:00:00Z">>,
   <<TitleCabaUp, "Telegrafi", "2025-01-01T09:00:00Z">>}

\* the lists of at most n rows of the set rows
ListsUpTo(n, rows) ==
  UNION { { Rows(f) : f \in [1..k -> rows] } : k \in 0..n }

InitCaches ==
  /\ articles = <<>>
  /\ similarityThreshold = 85
  /\ threshold2 = similarityThreshold
  /\ limit = <<>>
  /\ pc = "start"
  /\ out = NotCalled
  /\ out2 = NotCalled
  /\ HandlerIdle
  /\ CachesEmpty
  /\ StoreIdle

CallFilterWithCaches ==
  \E list \in ListsUpTo(MaxCallArticles, CallRows) :
    LET call == filterDuplicateArticlesWith(Caches, list, similarityThreshold)
    IN  /\ articles' = list
        /\ out' = call.result
        /\ providerScoreCache' = call.caches.providerScore
        /\ dateCache' = call.caches.date
        /\ titleCache' = call.caches.title
        /\ pc' = "filterDuplicateArticles"
        /\ UNCHANGED <<similarityThreshold, threshold2, limit, out2>>
        /\ UNCHANGED <<similarityParam, response, articlesTable, saveCalls,
                       article_views, daily_usage, trackCalls, uniqueKeys>>
        /\ UNCHANGED calls

CallSortWithCaches ==
  \E list \in ListsUpTo(MaxCallArticles, CallRows) :
    LET call == sortArticlesByPriorityWith(Caches, list)
    IN  /\ articles' = list
        /\ out' = call.result
        /\ providerScoreCache' = call.caches.providerScore
        /\ dateCache' = call.caches.date
        /\ titleCache' = call.caches.title
        /\ pc' = "sortArticlesByPriority"
        /\ UNCHANGED <<similarityThreshold, threshold2, limit, out2>>
        /\ UNCHANGED <<similarityParam, response, articlesTable, saveCalls,
                       article_views, daily_usage, trackCalls, uniqueKeys>>
        /\ UNCHANGED calls

CallClearCaches ==
  /\ providerScoreCache' = <<>>
  /\ dateCache' = <<>>
  /\ titleCache' = <<>>
  /\ pc' = "clearCaches"
  /\ UNCHANGED <<articles, similarityThreshold, threshold2, limit, out, out2>>
  /\ UNCHANGED <<similarityParam, response, articlesTable, saveCalls,
                 article_views, daily_usage, trackCalls, uniqueKeys>>
  /\ UNCHANGED calls

NextCaches ==
  \/ CallFilterWithCaches
  \/ CallSortWithCaches
  \/ CallClearCaches

SpecCaches == InitCaches /\ [][NextCaches]_vars

\* C18: whatever calls came before, a call of filterDuplicateArticles or of
\* sortArticlesByPriority returns what the same call returns starting from
\* empty caches.
C18_CachesNotObservable ==
  /\ pc = "filterDuplicateArticles" =>
       out = filterDuplicateArticlesWith(NoCaches, articles,
                                         similarityThreshold).result
  /\ pc = "sortArticlesByPriority" =>
       out = sortArticlesByPriorityWith(NoCaches, articles).result

\* C18 witness: a call that had to choose between two similar articles of
\* equal score by their dates while the date cache held an entry left by an
\* earlier call on other rows.
C18_Witness ==
  /\ pc = "filterDuplicateArticles"
  /\ Len(articles) = 2
  /\ Len(out.value) = 1
  /\ getProviderScore(articles[1].publication_source)
       = getProviderScore(articles[2].publication_source)
  /\ articles[1].created_at = articles[2].created_at
  /\ Cardinality(DOMAIN dateCache) = 2

(***************************************************************************)
(* DatabaseService.saveArticle (articles-crawler/services/database.ts).    *)
(* saveArticles starts the saveArticle calls of a batch together           *)
(* (Promise.allSettled), and crawler functions run at overlapping times,   *)
(* so the calls interleave at their awaits: the select of articleExists    *)
(* and the insert are separate steps.  saveCalls[i] is one call: its url   *)
(* and where it stands.                                                    *)
(***************************************************************************)
Urls == {"https://a/1", "https://a/2"}

\* the articles table without the UNIQUE constraint on url
UrlIsUniqueDropped == FALSE

\* the articles table declares url TEXT UNIQUE NOT NULL
UrlIsUnique == TRUE

\* the rows of the table with this url
RowsWithUrl(table, url) == { r \in DOMAIN table : table[r].url = url }

InitSave ==
  /\ articles = <<>>
  /\ similarityThreshold = 85
  /\ threshold2 = similarityThreshold
  /\ limit = <<>>
  /\ pc = "saveArticles"
  /\ out = NotCalled
  /\ out2 = NotCalled
  /\ HandlerIdle
  /\ CachesEmpty
  /\ articlesTable \in {<<>>, <<[url |-> "https://a/1"]>>}
  /\ \E n \in 1..MaxSaveCalls :
       saveCalls \in [1..n -> [url : Urls, pc : {"articleExists"}]]
  /\ article_views = <<>>
  /\ daily_usage = <<>>
  /\ trackCalls = <<>>
  /\ uniqueKeys = TRUE
  /\ CallsIdle

\* articleExists: select the row with this url; a row found ends the call
ArticleExists(i) ==
  /\ saveCalls[i].pc = "articleExists"
  /\ saveCalls' = [saveCalls EXCEPT ![i].pc =
       IF RowsWithUrl(articlesTable, saveCalls[i].url) # {}
         THEN "exists" ELSE "insert"]
  /\ UNCHANGED articlesTable
  /\ UNCHANGED <<articles, similarityThreshold, threshold2, limit, pc, out,
                 out2, similarityParam, response, providerScoreCache,
                 dateCache, titleCache, article_views, daily_usage,
                 trackCalls, uniqueKeys>>
  /\ UNCHANGED calls

\* articleExists when the select fails: it returns false and the call goes on
ArticleExistsError(i) ==
  /\ saveCalls[i].pc = "articleExists"
  /\ saveCalls' = [saveCalls EXCEPT ![i].pc = "insert"]
  /\ UNCHANGED articlesTable
  /\ UNCHANGED <<articles, similarityThreshold, threshold2, limit, pc, out,
                 out2, similarityParam, response, providerScoreCache,
                 dateCache, titleCache, article_views, daily_usage,
                 trackCalls, uniqueKeys>>
  /\ UNCHANGED calls

\* the insert: the table rejects a url it already holds
InsertArticle(i) ==
  /\ saveCalls[i].pc = "insert"
  /\ IF UrlIsUnique /\ RowsWithUrl(articlesTable, saveCalls[i].url) # {}
       THEN /\ saveCalls' = [saveCalls EXCEPT ![i].pc = "insertError"]
            /\ UNCHANGED articlesTable
       ELSE /\ saveCalls' = [saveCalls EXCEPT ![i].pc = "saved"]
            /\ articlesTable' =
                 Append(articlesTable, [url |-> saveCalls[i].url])
  /\ UNCHANGED <<articles, similarityThreshold, threshold2, limit, pc, out,
                 out2, similarityParam, response, providerScoreCache,
                 dateCache, titleCache, article_views, daily_usage,
                 trackCalls, uniqueKeys>>
  /\ UNCHANGED calls

NextSave ==
  \E i \in DOMAIN saveCalls :
    \/ ArticleExists(i)
    \/ ArticleExistsError(i)
    \/ InsertArticle(i)

SpecSave == InitSave /\ [][NextSave]_vars

ArticleIds == {1, 2}

\* .single(): the row when exactly one matches, no data otherwise
Single(rows) == IF Cardinality(rows) = 1 THEN rows ELSE {}

\* the rows of article_views of this user, article and day
ViewsOf(articleId) ==
  { r \in DOMAIN article_views : article_views[r] = articleId }

InitTrack ==
  /\ articles = <<>>
  /\ similarityThreshold = 85
  /\ threshold2 = similarityThreshold
  /\ limit = <<>>
  /\ pc = "trackArticleView"
  /\ out = NotCalled
  /\ out2 = NotCalled
  /\ HandlerIdle
  /\ CachesEmpty
  /\ articlesTable = <<>>
  /\ saveCalls = <<>>
  /\ article_views = <<>>
  /\ daily_usage = <<>>
  /\ \E n \in 1..MaxTrackCalls :
       trackCalls \in [1..n -> [articleId : ArticleIds, pc : {"checkView"},
                                existingUsage : {0}]]
  /\ uniqueKeys \in BOOLEAN
  /\ CallsIdle

\* select the view of this article today; one found ends the request
CheckView(i) ==
  /\ trackCalls[i].pc = "checkView"
  /\ trackCalls' = [trackCalls EXCEPT ![i].pc =
       IF Single(ViewsOf(trackCalls[i].articleId)) # {}
         THEN "alreadyRecorded" ELSE "insertView"]
  /\ UNCHANGED <<article_views, daily_usage>>
  /\ UNCHANGED <<articles, similarityThreshold, threshold2, limit, pc, out,
                 out2, similarityParam, response, providerScoreCache,
                 dateCache, titleCache, articlesTable, saveCalls, uniqueKeys>>
  /\ UNCHANGED calls

\* insert the view; the outcome of the insert is not looked at
InsertView(i) ==
  /\ trackCalls[i].pc = "insertView"
  /\ article_views' =
       IF uniqueKeys /\ ViewsOf(trackCalls[i].articleId) # {}
         THEN article_views
         ELSE Append(article_views, trackCalls[i].articleId)
  /\ trackCalls' = [trackCalls EXCEPT ![i].pc = "readUsage"]
  /\ UNCHANGED daily_usage
  /\ UNCHANGED <<articles, similarityThreshold, threshold2, limit, pc, out,
                 out2, similarityParam, response, providerScoreCache,
                 dateCache, titleCache, articlesTable, saveCalls, uniqueKeys>>
  /\ UNCHANGED calls

\* select today's usage row; existingUsage is its id, 0 for none
ReadUsage(i) ==
  /\ trackCalls[i].pc = "readUsage"
  /\ LET found == Single(DOMAIN daily_usage)
     IN  trackCalls' = [trackCalls EXCEPT
           ![i].pc = IF found # {} THEN "updateUsage" ELSE "insertUsage",
           ![i].existingUsage =
             IF found # {} THEN daily_usage[CHOOSE r \in found : TRUE]
             ELSE 0]
  /\ UNCHANGED <<article_views, daily_usage>>
  /\ UNCHANGED <<articles, similarityThreshold, threshold2, limit, pc, out,
                 out2, similarityParam, response, providerScoreCache,
                 dateCache, titleCache, articlesTable, saveCalls, uniqueKeys>>
  /\ UNCHANGED calls

\* update the row read to the count read plus one
UpdateUsage(i) ==
  /\ trackCalls[i].pc = "updateUsage"
  /\ daily_usage' = [daily_usage EXCEPT ![1] = trackCalls[i].existingUsage + 1]
  /\ trackCalls' = [trackCalls EXCEPT ![i].pc = "tracked"]
  /\ UNCHANGED article_views
  /\ UNCHANGED <<articles, similarityThreshold, threshold2, limit, pc, out,
                 out2, similarityParam, response, providerScoreCache,
                 dateCache, titleCache, articlesTable, saveCalls, uniqueKeys>>
  /\ UNCHANGED calls

\* insert a usage row with articles_viewed 1
InsertUsage(i) ==
  /\ trackCalls[i].pc = "insertUsage"
  /\ daily_usage' = IF uniqueKeys /\ Len(daily_usage) > 0
                      THEN daily_usage ELSE Append(daily_usage, 1)
  /\ trackCalls' = [trackCalls EXCEPT ![i].pc = "tracked"]
  /\ UNCHANGED article_views
  /\ UNCHANGED <<articles, similarityThreshold, threshold2, limit, pc, out,
                 out2, similarityParam, response, providerScoreCache,
                 dateCache, titleCache, articlesTable, saveCalls, uniqueKeys>>
  /\ UNCHANGED calls

NextTrack ==
  \E i \in DOMAIN trackCalls :
    \/ CheckView(i)
    \/ InsertView(i)
    \/ ReadUsage(i)
    \/ UpdateUsage(i)
    \/ InsertUsage(i)

SpecTrack == InitTrack /\ [][NextTrack]_vars

AllTracked ==
  \A i \in DOMAIN trackCalls : trackCalls[i].pc \in {"alreadyRecorded", "tracked"}

\* C20: once every request has been answered, article_views holds one row
\* per article viewed and the day's usage row counts the distinct articles
\* viewed.
C20_ViewsCountedOnce ==
  AllTracked =>
    /\ \A a \in ArticleIds : Cardinality(ViewsOf(a)) <= 1
    /\ Len(daily_usage) = 1
    /\ daily_usage[1] = Cardinality({ article_views[r] : r \in DOMAIN article_views })

(***************************************************************************)
(* Order of the result of filterDuplicateArticles (Spec).  The url of a    *)
(* row is its position in the input.                                       *)
(***************************************************************************)
\* C24: the result of filterDuplicateArticles is in input-relative order:
\* of any two items of the result, the one that comes first in the result
\* comes first in the input, also after a replacement.
C24_InputRelativeOrder ==
  (pc = "filtered" /\ ~out.threw) =>
    \A i, j \in DOMAIN out.value :
      i < j => out.value[i].url < out.value[j].url

\* C24 as amended: two items of the result are in input-relative order
\* unless the one that stands first replaced an earlier duplicate (the input
\* holds, before it, a well-formed item similar to it), whose position it
\* took.
C24_OrderUpToReplacement ==
  (pc = "filtered" /\ ~out.threw) =>
    \A i, j \in DOMAIN out.value :
      (i < j /\ out.value[i].url > out.value[j].url) =>
        \E k \in 1..(out.value[i].url - 1) :
          /\ WellFormed(articles[k])
          /\ SimilarArticles(articles[k], out.value[i], similarityThreshold)

\* C24 witness: a later item took the position of the duplicate it replaced
\* and so stands before an item that precedes it in the input.
C24_Witness ==
  /\ pc = "filtered"
  /\ ~out.threw
  /\ Len(out.value) = 2
  /\ out.value[1].url = 3
  /\ out.value[2].url = 2

(***************************************************************************)
(* The all-articles endpoint (all-articles/index.ts) with its own copy of  *)
(* the duplicate filter (all-articles/services/duplicate-filter.ts), which *)
(* differs from the daily-articles one in its ranking table and in         *)
(* getProviderScore.  articles holds the rows of the store in the order of *)
(* the query, limit the limit parameter (<<>> for none), similarityParam   *)
(* the similarity_threshold parameter.                                     *)
(***************************************************************************)
\* PROVIDER_RANKINGS of all-articles
ALL_PROVIDER_RANKINGS ==
  [p \in {"telegrafi", "gazeta-express", "insajderi", "gazeta-blic",
          "default"} |->
     CASE p = "telegrafi"      -> 5
       [] p = "gazeta-express" -> 4
       [] p = "insajderi"      -> 3
       [] p = "gazeta-blic"    -> 2
       [] p = "default"        -> 1]

\* filterDuplicateArticles of all-articles: getProviderScore looks the name
\* up as it is, else 'default'; the rest is the loop of the daily-articles
\* filter
AllArticlesFilter(list, threshold) ==
  LET Score(provider) ==
        IF provider \in DOMAIN ALL_PROVIDER_RANKINGS
          THEN ALL_PROVIDER_RANKINGS[provider]
          ELSE ALL_PROVIDER_RANKINGS["default"]
      Better(current, existing) ==
        IF Score(current.publication_source)
             # Score(existing.publication_source)
          THEN IF Score(current.publication_source)
                    > Score(existing.publication_source)
                 THEN current ELSE existing
        ELSE IF DateGetTime(current.created_at)
                  > DateGetTime(existing.created_at)
          THEN current ELSE existing
      Step(st, article) ==
        IF \/ IsMissingTitle(article.title)
           \/ IsMissing(article.publication_source)
           \/ IsMissing(article.created_at)
          THEN st
          ELSE
            LET currentTitle == Trim(ToLowerCase(article.title))
                i == FirstDuplicate(currentTitle, st[2], threshold, 1)
            IN  IF i = 0
                  THEN <<Append(st[1], article), Append(st[2], currentTitle)>>
                ELSE IF Better(article, st[1][i]) = article
                  THEN <<[st[1] EXCEPT ![i] = article],
                         [st[2] EXCEPT ![i] = currentTitle]>>
                ELSE st
      loop[k \in 0..Len(list)] ==
        IF k = 0 THEN <<<<>>, <<>>>> ELSE Step(loop[k - 1], list[k])
  IN  IF Len(list) <= 1 THEN list ELSE loop[Len(list)][1]

\* has_next_page when the filtered list just fills the page
HasNextPageWhenFull(processedData, endIndex) == Len(processedData) >= endIndex

\* hasNextPage: the filtered list goes on after the page
HasNextPage(processedData, endIndex) == Len(processedData) > endIndex

\* the all-articles handler for a page: fetch size, fetch, threshold,
\* filtering, pagination, response
AllArticles(page, limitParam, param, store) ==
  LET lim == Min3(50, 50, Max(1, IF limitParam = <<>> \/ limitParam = <<0>>
                                   THEN 10 ELSE limitParam[1]))
      fetchLimit == Min3(100, 100, CeilDiv(5 * lim + 2 * (page - 1) * lim, 2))
      originalData == SliceTo(store, fetchLimit)
      disabled == param \in {"none", "false", "0"}
      parsedThreshold == NumberOf(param)
      invalid == /\ ~disabled
                 /\ param # ""
                 /\ \/ parsedThreshold = <<>>
                    \/ parsedThreshold[1] < 50
                    \/ parsedThreshold[1] > 95
      threshold == IF disabled THEN <<>>
                   ELSE IF param # "" THEN parsedThreshold
                   ELSE <<85>>
      processedData == IF threshold # <<>>
                         THEN AllArticlesFilter(originalData, threshold[1])
                         ELSE originalData
      endIndex == (page - 1) * lim + lim
  IN  IF invalid THEN BadRequest
      ELSE [status |-> 200, page |-> page, limit |-> lim,
            total_fetched |-> Len(originalData),
            has_next_page |-> HasNextPage(processedData, endIndex),
            filtering_applied |-> threshold # <<>>,
            total_after_filtering |-> Len(processedData),
            data |-> SubSeq(processedData, (page - 1) * lim + 1,
                            Min3(endIndex, endIndex, Len(processedData)))]

InitPages ==
  /\ ArticlesFrom(MaxStored,
                  {<<TitleAba, "Koha", "2025-01-01T09:00:00Z">>,
                   <<TitleAba, "gazeta-blic", "2025-01-01T09:00:00Z">>,
                   <<TitleCabaUp, "gazeta-blic", "2025-01-01T09:00:00Z">>,
                   <<TitleCab, "Koha", "2025-01-01T09:00:00Z">>,
                   <<TitleCab, "gazeta-blic", "2025-01-01T08:00:00Z">>})
  /\ NewestFirstOrder(articles)
  /\ limit \in {<<>>, <<1>>, <<2>>}
  /\ similarityParam \in {"", "none", "abc"}
  /\ response = [status |-> 0]
  /\ similarityThreshold = 85
  /\ threshold2 = similarityThreshold
  /\ pc = "start"
  /\ out = NotCalled
  /\ out2 = NotCalled
  /\ CachesEmpty
  /\ StoreIdle

\* a request for a page
HandleAllArticles ==
  /\ pc = "start"
  /\ \E page \in 1..MaxPage :
       response' = AllArticles(page, limit, similarityParam, articles)
  /\ pc' = "page"
  /\ UNCHANGED <<articles, similarityThreshold, threshold2, limit, out, out2>>
  /\ UNCHANGED <<similarityParam, providerScoreCache, dateCache, titleCache,
                 articlesTable, saveCalls, article_views, daily_usage,
                 trackCalls, uniqueKeys>>
  /\ UNCHANGED calls

\* the request for the page after it, same parameters, same store
HandleNextPage ==
  /\ pc = "page"
  /\ response.status = 200
  /\ out2' = Returned(AllArticles(response.page + 1, limit, similarityParam,
                                  articles).data)
  /\ pc' = "nextPage"
  /\ UNCHANGED <<articles, similarityThreshold, threshold2, limit, out>>
  /\ UNCHANGED <<similarityParam, response, providerScoreCache, dateCache,
                 titleCache, articlesTable, saveCalls, article_views,
                 daily_usage, trackCalls, uniqueKeys>>
  /\ UNCHANGED calls

NextPages == HandleAllArticles \/ HandleNextPage

SpecPages == InitPages /\ [][NextPages]_vars

KnownProviders ==
  {"Telegrafi", "Insajderi", "indeksonline", "gazeta-express", "botasot",
   "gazeta-blic"}

\* C25: an article of an unrecognized provider is never out-ranked by one of
\* a known provider: of two stored rows with similar titles, one of an
\* unknown provider and one of gazeta-blic, the all-articles filter keeps the
\* one of the unknown provider.
C25_UnknownProviderNeverOutranked ==
  (/\ pc = "page"
   /\ response.status = 200
   /\ response.page = 1
   /\ response.filtering_applied
   /\ Len(articles) = 2
   /\ articles[1].publication_source \notin KnownProviders
   /\ articles[2].publication_source = "gazeta-blic"
   /\ SimilarArticles(articles[1], articles[2], 85)) =>
    response.data = <<articles[1]>>

\* C27: when the response for page p says has_next_page, the response for
\* page p+1 with the same parameters on the same store holds an article.
C27_NextPageNotEmpty ==
  (pc = "nextPage" /\ response.has_next_page) => Len(out2.value) > 0

\* C27 witness: page p reported a next page with filtering on, and page p+1
\* holds a row that only the larger pool fetched for it contains.
C27_Witness ==
  /\ pc = "nextPage"
  /\ response.has_next_page
  /\ response.filtering_applied
  /\ Len(out2.value) > 0
  /\ Len(articles) > response.total_fetched
  /\ \E i \in DOMAIN out2.value :
       \A k \in 1..response.total_fetched : articles[k] # out2.value[i]

(***************************************************************************)
(* Phase 1 of getOptimizedDailyArticles and getOptimizedDailyArticlesV2.   *)
(***************************************************************************)
\* isDuplicateTitle of the article's normalized title against the normalized
\* titles of `selected`
CollidesWith(article, selected, threshold) ==
  isDuplicateTitle(Trim(ToLowerCase(article.title)),
                   [i \in DOMAIN selected |->
                      Trim(ToLowerCase(selected[i].title))],
                   threshold)

\* the place of the article's provider in PROVIDER_ORDER
ProviderIndex(article) ==
  CHOOSE p \in DOMAIN PROVIDER_ORDER :
    PROVIDER_ORDER[p] = article.publication_source

\* Phase 1 has run: always in getOptimizedDailyArticles, in the V2 selection
\* for more than targetCount articles
PhaseOneRan ==
  \/ pc = "optimized"
  \/ pc = "optimizedV2" /\ Len(articles) > targetCount

\* the items the providers before the p-th contributed to `one`
Before(one, p) ==
  LET Earlier(a) == ProviderIndex(a) < p
  IN  SelectSeq(one, Earlier)

\* C22: the result starts with the Phase 1 items: one per contributing
\* provider, in priority order, none colliding with an earlier one, each the
\* most recent article of its provider that does not collide with the items
\* before it; a provider without an item has only colliding articles.
C22_PhaseOneNewestNonColliding ==
  PhaseOneRan =>
    \E m \in 0..Len(out.value) :
      LET one == SubSeq(out.value, 1, m)
      IN  /\ \A i, j \in 1..m :
                i < j => ProviderIndex(one[i]) < ProviderIndex(one[j])
          /\ \A i \in 1..m :
                ~CollidesWith(one[i], SubSeq(one, 1, i - 1),
                              similarityThreshold)
          /\ \A i \in 1..m : \A k \in Positions(articles) :
                ( /\ articles[k].publication_source
                       = one[i].publication_source
                  /\ DateGetTime(articles[k].created_at)
                       > DateGetTime(one[i].created_at) )
                  => CollidesWith(articles[k], SubSeq(one, 1, i - 1),
                                  similarityThreshold)
          /\ \A p \in DOMAIN PROVIDER_ORDER :
                (\A i \in 1..m : ProviderIndex(one[i]) # p)
                  => \A k \in Positions(articles) :
                       articles[k].publication_source = PROVIDER_ORDER[p]
                         => CollidesWith(articles[k], Before(one, p),
                                         similarityThreshold)

\* C22 witness: the V2 selection ran Phase 1 on more than targetCount
\* articles; one provider gave an article older than its newest, whose title
\* collided, and another provider with articles gave none.
C22_Witness ==
  /\ pc = "optimizedV2"
  /\ Len(articles) > targetCount
  /\ LET one == PhaseOne(articles, similarityThreshold,
                         [result |-> <<>>, selectedTitles |-> <<>>,
                          providerCounts |->
                            [p \in DOMAIN PROVIDER_ORDER |-> 0],
                          slotsToFill |-> 0], 1).result
     IN  /\ one = SubSeq(out.value, 1, Len(one))
         /\ \E i \in DOMAIN one : \E k \in Positions(articles) :
              /\ articles[k].publication_source = one[i].publication_source
              /\ DateGetTime(articles[k].created_at)
                   > DateGetTime(one[i].created_at)
         /\ \E p \in DOMAIN PROVIDER_ORDER :
              /\ CountOf(articles, PROVIDER_ORDER[p]) > 0
              /\ \A i \in DOMAIN one : ProviderIndex(one[i]) # p

(***************************************************************************)
(* SpecRelaxed: the optimized selections at thresholds the handlers        *)
(* accept, on lists whose titles repeat so that Phases 1 and 2 leave slots *)
(* for Phase 3, and on lists with titles of white space only.              *)
(***************************************************************************)
\* a title that shares no character with any other title
TitleOf(c) == <<c, c, c>>

\* a title of white space only
TitleBlank == <<" ">>

RelaxedPalettes ==
  {<<TitleAba, TitleCabaUp, TitleAba>>,
   <<TitleAba, TitleCab, TitleCabaUp, TitleBcba, TitleNews, TitleNewsSp,
     TitleAba>>,
   <<TitleAba, TitleBlank, TitleAba>>,
   <<TitleAba, TitleCab, TitleOf("d"), TitleOf("e"), TitleBcba, TitleNews,
     TitleOf("f"), TitleOf("g"), TitleNews, TitleAba, TitleCabaUp,
     TitleCab>>}

InitRelaxed ==
  /\ \E counts \in ProviderCountsWithin(MaxPerProvider, MaxMinorPerProvider) :
       \E palette \in RelaxedPalettes :
         LET sources == SourcesOf(counts, 1)
         IN  articles = Rows([i \in DOMAIN sources |->
                                <<Cycle(palette, i), sources[i],
                                  Cycle(DatePalette, i)>>])
  /\ similarityThreshold \in {85, 90, 95}
  /\ threshold2 = similarityThreshold
  /\ limit = <<>>
  /\ pc = "start"
  /\ out = NotCalled
  /\ out2 = NotCalled
  /\ HandlerIdle
  /\ CachesEmpty
  /\ StoreIdle

NextRelaxed ==
  \/ CallOptimizedV2
  \/ CallOptimized
  \/ CallOptimizedNoFilterV2

SpecRelaxed == InitRelaxed /\ [][NextRelaxed]_vars

\* the result lengths at which Phase 3 added an article: from the length
\* Phase 2 left to the length Phase 3 left
RelaxedSlots ==
  LET two == PhaseTwoBlock(articles, similarityThreshold, targetCount,
               PhaseOne(articles, similarityThreshold,
                        [result |-> <<>>, selectedTitles |-> <<>>,
                         providerCounts |->
                           [p \in DOMAIN PROVIDER_ORDER |-> 0],
                         slotsToFill |-> 0], 1))
      three == PhaseThreeBlock(articles, similarityThreshold, targetCount, two)
  IN  { n \in 0..targetCount :
          Len(two.result) <= n /\ n < Len(three.result) }

\* C23: in the relaxed phase every slot before the last two is checked at the
\* caller's threshold, and the threshold of the last two slots is never lower
\* than the threshold of an earlier slot.
C23_RelaxedOnlyLastTwo ==
  (pc = "optimizedV2" /\ Len(articles) > targetCount) =>
    /\ \A n \in RelaxedSlots :
         n < targetCount - 2
           => RelaxedThreshold(n, similarityThreshold, targetCount)
                = similarityThreshold
    /\ \A n, m \in RelaxedSlots :
         (n < targetCount - 2 /\ m >= targetCount - 2)
           => RelaxedThreshold(m, similarityThreshold, targetCount)
                >= RelaxedThreshold(n, similarityThreshold, targetCount)

(***************************************************************************)
(* SpecRetry: BaseProvider.fetchWithRetry of crawl-gazeta-blic.  retryCall *)
(* holds this.options.maxRetries as the constructor left it, the argument  *)
(* retries of the innermost call, and what the calls did so far: the       *)
(* number of fetches, the error of each failed fetch and the delays.       *)
(***************************************************************************)
MaxRetriesOption == 2

\* the default the constructor gives options.maxRetries
DefaultMaxRetries == 3

\* this.options.maxRetries || 3
MaxRetriesOf(options) ==
  IF options.maxRetries = 0 THEN 3 ELSE options.maxRetries

\* the constructor: the defaults, overridden by the options given; <<>> is
\* an options object without maxRetries
InitRetry ==
  /\ \E given \in {<<>>} \cup { <<n>> : n \in 0..MaxRetriesOption } :
       retryCall = [options |-> [maxRetries |-> IF given = <<>>
                                                  THEN DefaultMaxRetries
                                                  ELSE given[1]],
                    retries |-> 0, pc |-> "fetch", attempts |-> 0,
                    errors |-> <<>>, delays |-> <<>>,
                    returned |-> <<>>, thrown |-> <<>>]
  /\ articles = <<>>
  /\ similarityThreshold = 85
  /\ threshold2 = 85
  /\ limit = <<>>
  /\ pc = "start"
  /\ out = NotCalled
  /\ out2 = NotCalled
  /\ HandlerIdle
  /\ CachesEmpty
  /\ articlesTable = <<>>
  /\ saveCalls = <<>>
  /\ article_views = <<>>
  /\ daily_usage = <<>>
  /\ trackCalls = <<>>
  /\ uniqueKeys = TRUE
  /\ fetchCall = <<>>
  /\ cleanupCall = <<>>

\* the try block and the catch up to the delay: fetch resolves with an ok
\* response, resolves with a response that is not ok, or rejects
FetchAttempt ==
  /\ retryCall.pc = "fetch"
  /\ \E outcome \in {"ok", "HTTP", "rejected"} :
       LET attempt == retryCall.attempts + 1
           error == [attempt |-> attempt, kind |-> outcome]
       IN  retryCall' =
             IF outcome = "ok"
               THEN [retryCall EXCEPT !.attempts = attempt,
                                      !.returned = <<attempt>>,
                                      !.pc = "returned"]
             ELSE IF retryCall.retries < MaxRetriesOf(retryCall.options)
               THEN [retryCall EXCEPT !.attempts = attempt,
                                      !.errors = Append(@, error),
                                      !.pc = "delay"]
             ELSE [retryCall EXCEPT !.attempts = attempt,
                                    !.errors = Append(@, error),
                                    !.thrown = <<error>>,
                                    !.pc = "thrown"]
  /\ UNCHANGED <<articles, similarityThreshold, threshold2, limit, pc, out,
                 out2, similarityParam, response, providerScoreCache,
                 dateCache, titleCache, articlesTable, saveCalls,
                 article_views, daily_usage, trackCalls, uniqueKeys>>
  /\ UNCHANGED <<fetchCall, cleanupCall>>

\* await this.delay(1000 * (retries + 1)), then the recursive call
DelayThenRetry ==
  /\ retryCall.pc = "delay"
  /\ retryCall' = [retryCall EXCEPT
                     !.delays = Append(@, 1000 * (retryCall.retries + 1)),
                     !.retries = @ + 1,
                     !.pc = "fetch"]
  /\ UNCHANGED <<articles, similarityThreshold, threshold2, limit, pc, out,
                 out2, similarityParam, response, providerScoreCache,
                 dateCache, titleCache, articlesTable, saveCalls,
                 article_views, daily_usage, trackCalls, uniqueKeys>>
  /\ UNCHANGED <<fetchCall, cleanupCall>>

NextRetry ==
  \/ FetchAttempt
  \/ DelayThenRetry

SpecRetry == InitRetry /\ [][NextRetry]_vars

\* C28: fetchWithRetry fetches at most options.maxRetries + 1 times (once for
\* maxRetries 0), has waited once before every fetch but the first, returns
\* the first ok response and otherwise throws the error of the last fetch,
\* after exactly maxRetries + 1 fetches.
C28_AtMostMaxRetriesPlusOne ==
  /\ retryCall.attempts <= retryCall.options.maxRetries + 1
  /\ retryCall.pc = "fetch" => Len(retryCall.delays) = retryCall.attempts
  /\ retryCall.pc = "returned" =>
       /\ retryCall.returned = <<Len(retryCall.errors) + 1>>
       /\ Len(retryCall.delays) = retryCall.attempts - 1
  /\ retryCall.pc = "thrown" =>
       /\ retryCall.attempts = retryCall.options.maxRetries + 1
       /\ retryCall.thrown = <<retryCall.errors[Len(retryCall.errors)]>>
       /\ Len(retryCall.delays) = retryCall.attempts - 1

(***************************************************************************)
(* SpecFetch: fetchArticlesWithFallback of index-optimized-v2.ts.          *)
(* fetchCall holds the arguments and the locals of one call, and the       *)
(* ranges it requested and the number of rows of each batch.  The store    *)
(* answers every request with an error or with any number of rows up to    *)
(* MaxBatchRows.  The file imports the V2 selections only (line 4), so the *)
(* name getOptimizedDailyArticles on line 89 is bound only if the runtime  *)
(* provides it: filterDefined says whether it does, and the call throws a  *)
(* ReferenceError if not.                                                  *)
(***************************************************************************)
MaxBatchRows == 3

maxIterations == 5

\* titles that share no character
Letters ==
  <<"d", "e", "f", "g", "h", "i", "j", "k", "l", "m", "o", "p", "q", "r",
    "t", "u", "v", "x", "y", "z", "0", "2", "3", "4", "5", "6", "7", "8">>

\* the rows the store holds at 0-based offsets from, ..., from + k - 1
StoreRows(call, from, k) ==
  LET sources == IF call.providers \in {<<"null">>, <<>>}
                   THEN PROVIDER_ORDER
                   ELSE call.providers
  IN  [i \in 1..k |->
         Article(from + i,
                 IF call.distinctTitles
                   THEN TitleOf(Cycle(Letters, from + i))
                   ELSE TitleAba,
                 Cycle(sources, from + i),
                 Cycle(DatePalette, from + i))]

\* Math.min(50, batchSize * 1.5)
NextBatchSize(batchSize) ==
  IF 3 * batchSize >= 100 THEN 50 ELSE (3 * batchSize) \div 2

\* the state of a call before its first iteration; providers <<"null">> is
\* the argument null, similarityThreshold <<>> is null
InitFetch ==
  /\ \E providers \in {<<"null">>, <<>>, <<"Telegrafi">>, PROVIDER_ORDER,
                       PROVIDER_ORDER \o <<"Koha", "Kallxo">>} :
       \E threshold \in {<<>>, <<85>>} :
         \E filterDefined, distinctTitles \in BOOLEAN :
           fetchCall = [providers |-> providers,
                        similarityThreshold |-> threshold,
                        filterDefined |-> filterDefined,
                        distinctTitles |-> distinctTitles,
                        allArticles |-> <<>>, offset |-> 0, iterations |-> 0,
                        batchSize |-> IF providers # <<"null">>
                                        THEN Max(20, Len(providers) * 4)
                                        ELSE 30,
                        requests |-> <<>>, batches |-> <<>>,
                        pc |-> "loop", returned |-> <<>>]
  /\ articles = <<>>
  /\ similarityThreshold = 85
  /\ threshold2 = 85
  /\ limit = <<>>
  /\ pc = "start"
  /\ out = NotCalled
  /\ out2 = NotCalled
  /\ HandlerIdle
  /\ CachesEmpty
  /\ articlesTable = <<>>
  /\ saveCalls = <<>>
  /\ article_views = <<>>
  /\ daily_usage = <<>>
  /\ trackCalls = <<>>
  /\ uniqueKeys = TRUE
  /\ cleanupCall = <<>>
  /\ retryCall = <<>>

\* the rest of an iteration without offset += batchSize
AfterPushSameOffset(call, newArticles) ==
  LET allArticles == call.allArticles \o newArticles
  IN  [call EXCEPT
         !.allArticles = allArticles,
         !.batchSize = NextBatchSize(@),
         !.pc = IF Len(allArticles) < targetCount
                   /\ call.iterations < maxIterations
                  THEN "loop" ELSE "returned",
         !.returned = IF Len(allArticles) < targetCount
                         /\ call.iterations < maxIterations
                        THEN <<>> ELSE allArticles]

\* the call after the rest of an iteration that pushed newArticles: offset,
\* batchSize and the test of the while loop
AfterPush(call, newArticles) ==
  LET allArticles == call.allArticles \o newArticles
  IN  [call EXCEPT
         !.allArticles = allArticles,
         !.offset = @ + call.batchSize,
         !.batchSize = NextBatchSize(@),
         !.pc = IF Len(allArticles) < targetCount
                   /\ call.iterations < maxIterations
                  THEN "loop" ELSE "returned",
         !.returned = IF Len(allArticles) < targetCount
                         /\ call.iterations < maxIterations
                        THEN <<>> ELSE allArticles]

\* one iteration of the while loop, from iterations++ to the next test of
\* the loop condition; rows = -1 is an error of the store, and a batch has
\* at most MaxBatchRows rows, fewer than any batchSize
FetchBatch ==
  /\ fetchCall.pc = "loop"
  /\ \E rows \in -1..MaxBatchRows :
       LET newArticles == StoreRows(fetchCall, fetchCall.offset, Max(rows, 0))
           call == [fetchCall EXCEPT
                      !.iterations = @ + 1,
                      !.requests =
                        Append(@, <<fetchCall.offset,
                                    fetchCall.offset + fetchCall.batchSize - 1>>),
                      !.batches = Append(@, rows)]
           combined == fetchCall.allArticles \o newArticles
       IN  fetchCall' =
             IF rows = -1 THEN [call EXCEPT !.pc = "thrown"]
             ELSE IF rows = 0
               THEN [call EXCEPT !.pc = "returned",
                                 !.returned = call.allArticles]
             ELSE IF call.similarityThreshold = <<>>
               THEN IF Len(combined) >= targetCount
                      THEN [call EXCEPT !.allArticles = combined,
                                        !.pc = "returned",
                                        !.returned = combined]
                      ELSE AfterPush(call, newArticles)
             ELSE IF ~call.filterDefined
               THEN [call EXCEPT !.pc = "thrown"]
             ELSE IF Len(getOptimizedDailyArticles(
                           combined, call.similarityThreshold[1]))
                       >= targetCount
               THEN [call EXCEPT !.pc = "returned", !.returned = combined]
             ELSE AfterPush(call, newArticles)
  /\ UNCHANGED <<articles, similarityThreshold, threshold2, limit, pc, out,
                 out2, similarityParam, response, providerScoreCache,
                 dateCache, titleCache, articlesTable, saveCalls,
                 article_views, daily_usage, trackCalls, uniqueKeys>>
  /\ UNCHANGED <<cleanupCall, retryCall>>

NextFetch == FetchBatch

SpecFetch == InitFetch /\ [][NextFetch]_vars

\* the number of rows of the first n batches
RECURSIVE RowsUpTo(_, _)
RowsUpTo(batches, n) ==
  IF n = 0 THEN 0 ELSE RowsUpTo(batches, n - 1) + batches[n]

\* C26: a call makes at most maxIterations requests and has ended after the
\* last of them; the first range starts at offset 0 and every range starts
\* right after the one before it ends, all bounds whole numbers; and a
\* request follows a batch only if that batch was not empty and the rows
\* fetched so far were fewer than targetCount.
C26_BoundedContiguousFetches ==
  /\ fetchCall.iterations = Len(fetchCall.requests)
  /\ fetchCall.iterations <= maxIterations
  /\ fetchCall.pc = "loop" => fetchCall.iterations < maxIterations
  /\ fetchCall.pc = "loop" =>
       \/ 3 * fetchCall.batchSize >= 100
       \/ (3 * fetchCall.batchSize) % 2 = 0
  /\ \A i \in DOMAIN fetchCall.requests :
       /\ fetchCall.requests[i][1] <= fetchCall.requests[i][2]
       /\ fetchCall.requests[i][1]
            = IF i = 1 THEN 0 ELSE fetchCall.requests[i - 1][2] + 1
  /\ \A i \in DOMAIN fetchCall.requests :
       (i < Len(fetchCall.requests) \/ fetchCall.pc = "loop") =>
         /\ fetchCall.batches[i] > 0
         /\ RowsUpTo(fetchCall.batches, i) < targetCount

\* C26 witness: a call that ended with its fifth request, and whose earlier
\* batches were short.
C26_Witness ==
  /\ fetchCall # <<>>
  /\ fetchCall.pc = "returned"
  /\ fetchCall.iterations = maxIterations
  /\ fetchCall.requests[5][1] > fetchCall.requests[4][2]

\* C29: the lists returned by getOptimizedDailyArticles,
\* getOptimizedDailyArticlesV2 and getOptimizedDailyArticlesNoFilterV2 for
\* articles with distinct urls hold no url twice and at most targetCount
\* items.
C29_NoArticleTwice ==
  pc \in {"optimized", "optimizedV2", "optimizedNoFilterV2"} =>
    /\ Len(out.value) <= targetCount
    /\ \A i, j \in Positions(out.value) :
         i # j => out.value[i].url # out.value[j].url

(***************************************************************************)
(* SpecCleanup: one run of cleanupOldArticles (cleanup-old-articles), one  *)
(* step for each request it awaits; every request may come back with an    *)
(* error, which the catch block turns into a result with success = false.  *)
(* articlesTable is the set of rows, each an id and a created_at, time     *)
(* counted in days.  cleanupCall holds the configuration, the locals and    *)
(* the result of the run, and for the properties the table the run         *)
(* started from, the rows the count-based phase deleted, the table that    *)
(* phase left, and whether another client inserted a row meanwhile.        *)
(***************************************************************************)
MaxRows == 4

MaxMaxArticles == 2

MaxCreatedAt == 3

\* cutoffISOString, as a day
cutoffDate == 2

\* the result of the catch block
FailedRun(call) ==
  [call EXCEPT
     !.pc = "done",
     !.result = [deletedCount |-> 0,
                 countBasedDeletion |->
                   [deletedCount |-> 0, totalArticles |-> 0,
                    maxArticles |-> call.maxArticles],
                 success |-> FALSE]]

\* cleanupByCount returned countBasedResult: Phase 2 begins
AfterCleanupByCount(call, countBasedResult, table) ==
  [call EXCEPT !.pc = "countOld",
               !.countBasedResult = countBasedResult,
               !.afterCount = table]

InitCleanup ==
  /\ \E k \in 0..MaxRows : \E created \in [1..k -> 1..MaxCreatedAt] :
       articlesTable = { [id |-> i, created_at |-> created[i]] : i \in 1..k }
  /\ \E maxArticles \in 1..MaxMaxArticles :
       cleanupCall = [maxArticles |-> maxArticles, pc |-> "countTotal",
                      totalArticles |-> 0, idsToDelete |-> {},
                      countBasedResult |-> <<>>, articlesToDeleteByDate |-> 0,
                      result |-> <<>>, before |-> articlesTable,
                      deletedByCount |-> {}, afterCount |-> {},
                      inserted |-> FALSE]
  /\ articles = <<>>
  /\ similarityThreshold = 85
  /\ threshold2 = 85
  /\ limit = <<>>
  /\ pc = "start"
  /\ out = NotCalled
  /\ out2 = NotCalled
  /\ HandlerIdle
  /\ CachesEmpty
  /\ saveCalls = <<>>
  /\ article_views = <<>>
  /\ daily_usage = <<>>
  /\ trackCalls = <<>>
  /\ uniqueKeys = TRUE
  /\ fetchCall = <<>>
  /\ retryCall = <<>>

\* cleanupByCount: the count of all rows, and the return when it is within
\* the limit
CountTotal ==
  /\ cleanupCall.pc = "countTotal"
  /\ \E countError \in BOOLEAN :
       LET totalArticles == Cardinality(articlesTable)
       IN  cleanupCall' =
             IF countError THEN FailedRun(cleanupCall)
             ELSE IF totalArticles <= cleanupCall.maxArticles
               THEN AfterCleanupByCount(
                      [cleanupCall EXCEPT !.totalArticles = totalArticles],
                      [deletedCount |-> 0, totalArticles |-> totalArticles,
                       maxArticles |-> cleanupCall.maxArticles],
                      articlesTable)
             ELSE [cleanupCall EXCEPT !.totalArticles = totalArticles,
                                      !.pc = "fetchOldest"]
  /\ UNCHANGED <<articles, similarityThreshold, threshold2, limit, pc, out,
                 out2, similarityParam, response, providerScoreCache,
                 dateCache, titleCache, articlesTable, saveCalls,
                 article_views, daily_usage, trackCalls, uniqueKeys>>
  /\ UNCHANGED <<fetchCall, retryCall>>

\* the sets of n rows that a descending order by created_at can put first
OldestRowsDescending(table, n) ==
  { rows \in SUBSET table :
      /\ Cardinality(rows) = IF Cardinality(table) < n
                               THEN Cardinality(table) ELSE n
      /\ \A r \in rows : \A s \in table \ rows :
           r.created_at >= s.created_at }

\* the sets of n rows (fewer if the table holds fewer) that an ascending
\* order by created_at can put first
OldestRows(table, n) ==
  { rows \in SUBSET table :
      /\ Cardinality(rows) = IF Cardinality(table) < n
                               THEN Cardinality(table) ELSE n
      /\ \A r \in rows : \A s \in table \ rows :
           r.created_at <= s.created_at }

\* cleanupByCount: the select of the oldest articlesToDelete rows
FetchOldest ==
  /\ cleanupCall.pc = "fetchOldest"
  /\ \E fetchError \in BOOLEAN :
       \E oldestArticles \in
            OldestRows(articlesTable,
                       cleanupCall.totalArticles - cleanupCall.maxArticles) :
         cleanupCall' =
           IF fetchError THEN FailedRun(cleanupCall)
           ELSE IF oldestArticles = {}
             THEN AfterCleanupByCount(
                    cleanupCall,
                    [deletedCount |-> 0,
                     totalArticles |-> cleanupCall.totalArticles,
                     maxArticles |-> cleanupCall.maxArticles],
                    articlesTable)
           ELSE [cleanupCall EXCEPT
                   !.idsToDelete = { r.id : r \in oldestArticles },
                   !.pc = "deleteOldest"]
  /\ UNCHANGED <<articles, similarityThreshold, threshold2, limit, pc, out,
                 out2, similarityParam, response, providerScoreCache,
                 dateCache, titleCache, articlesTable, saveCalls,
                 article_views, daily_usage, trackCalls, uniqueKeys>>
  /\ UNCHANGED <<fetchCall, retryCall>>

\* cleanupByCount: the delete of idsToDelete and the return
DeleteOldest ==
  /\ cleanupCall.pc = "deleteOldest"
  /\ \E deleteError \in BOOLEAN :
       LET deleted == { r \in articlesTable : r.id \in cleanupCall.idsToDelete }
       IN  IF deleteError
             THEN /\ cleanupCall' = FailedRun(cleanupCall)
                  /\ articlesTable' = articlesTable
             ELSE /\ articlesTable' = articlesTable \ deleted
                  /\ cleanupCall' =
                       AfterCleanupByCount(
                         [cleanupCall EXCEPT !.deletedByCount = deleted],
                         [deletedCount |->
                            Cardinality(cleanupCall.idsToDelete),
                          totalArticles |-> cleanupCall.totalArticles,
                          maxArticles |-> cleanupCall.maxArticles],
                         articlesTable \ deleted)
  /\ UNCHANGED <<articles, similarityThreshold, threshold2, limit, pc, out,
                 out2, similarityParam, response, providerScoreCache,
                 dateCache, titleCache, saveCalls, article_views,
                 daily_usage, trackCalls, uniqueKeys>>
  /\ UNCHANGED <<fetchCall, retryCall>>

\* the result of the try block
SucceededRun(call, dateBasedDeletions) ==
  [call EXCEPT
     !.pc = "done",
     !.result = [deletedCount |-> dateBasedDeletions,
                 countBasedDeletion |-> call.countBasedResult,
                 success |-> TRUE]]

\* Phase 2: the count of the rows older than the cutoff, and the return when
\* there are none
CountOld ==
  /\ cleanupCall.pc = "countOld"
  /\ \E countError \in BOOLEAN :
       LET count == Cardinality({ r \in articlesTable :
                                    r.created_at < cutoffDate })
       IN  cleanupCall' =
             IF countError THEN FailedRun(cleanupCall)
             ELSE IF count > 0
               THEN [cleanupCall EXCEPT !.articlesToDeleteByDate = count,
                                        !.pc = "deleteOld"]
             ELSE SucceededRun(cleanupCall, 0)
  /\ UNCHANGED <<articles, similarityThreshold, threshold2, limit, pc, out,
                 out2, similarityParam, response, providerScoreCache,
                 dateCache, titleCache, articlesTable, saveCalls,
                 article_views, daily_usage, trackCalls, uniqueKeys>>
  /\ UNCHANGED <<fetchCall, retryCall>>

\* Phase 2: the delete of the rows older than the cutoff, and the return
DeleteOld ==
  /\ cleanupCall.pc = "deleteOld"
  /\ \E deleteError \in BOOLEAN :
       IF deleteError
         THEN /\ cleanupCall' = FailedRun(cleanupCall)
              /\ articlesTable' = articlesTable
         ELSE /\ articlesTable' = { r \in articlesTable :
                                      ~(r.created_at < cutoffDate) }
              /\ cleanupCall' =
                   SucceededRun(cleanupCall,
                                cleanupCall.articlesToDeleteByDate)
  /\ UNCHANGED <<articles, similarityThreshold, threshold2, limit, pc, out,
                 out2, similarityParam, response, providerScoreCache,
                 dateCache, titleCache, saveCalls, article_views,
                 daily_usage, trackCalls, uniqueKeys>>
  /\ UNCHANGED <<fetchCall, retryCall>>

\* another client (a crawler) inserts one row while the run is under way
InsertDuringCleanup ==
  /\ cleanupCall.pc # "done"
  /\ ~cleanupCall.inserted
  /\ \E created \in 1..MaxCreatedAt :
       articlesTable' = articlesTable \cup
                          {[id |-> MaxRows + 1, created_at |-> created]}
  /\ cleanupCall' = [cleanupCall EXCEPT !.inserted = TRUE]
  /\ UNCHANGED <<articles, similarityThreshold, threshold2, limit, pc, out,
                 out2, similarityParam, response, providerScoreCache,
                 dateCache, titleCache, saveCalls, article_views,
                 daily_usage, trackCalls, uniqueKeys>>
  /\ UNCHANGED <<fetchCall, retryCall>>

NextCleanup ==
  \/ CountTotal
  \/ FetchOldest
  \/ DeleteOldest
  \/ CountOld
  \/ DeleteOld
  \/ InsertDuringCleanup

SpecCleanup == InitCleanup /\ [][NextCleanup]_vars

\* C21: after a run that reports success while nobody inserted, the table
\* holds at most maxArticles rows, none older than the cutoff; the
\* count-based phase came first and deleted exactly the
\* (total - maxArticles) oldest rows of the table, leaving the others.
C21_CleanupPostcondition ==
  ( /\ cleanupCall.pc = "done"
    /\ cleanupCall.result.success
    /\ ~cleanupCall.inserted ) =>
    /\ Cardinality(articlesTable) <= cleanupCall.maxArticles
    /\ \A r \in articlesTable : ~(r.created_at < cutoffDate)
    /\ Cardinality(cleanupCall.deletedByCount)
         = Max(0, Cardinality(cleanupCall.before) - cleanupCall.maxArticles)
    /\ cleanupCall.deletedByCount \subseteq cleanupCall.before
    /\ \A r \in cleanupCall.deletedByCount :
         \A s \in cleanupCall.before \ cleanupCall.deletedByCount :
           r.created_at <= s.created_at
    /\ cleanupCall.afterCount
         = cleanupCall.before \ cleanupCall.deletedByCount
    /\ articlesTable \subseteq cleanupCall.afterCount

\* C21 witness: a successful run without inserts in which both phases
\* deleted rows and a row is left.
C21_Witness ==
  /\ cleanupCall # <<>>
  /\ cleanupCall.pc = "done"
  /\ cleanupCall.result.success
  /\ ~cleanupCall.inserted
  /\ cleanupCall.deletedByCount # {}
  /\ cleanupCall.result.deletedCount > 0
  /\ articlesTable # {}

\* C30: the countBasedDeletion.deletedCount a run reports is the number of
\* rows its count-based phase deleted, also when the run reports failure.
C30_ReportedCountDeletions ==
  cleanupCall.pc = "done" =>
    cleanupCall.result.countBasedDeletion.deletedCount
      = Cardinality(cleanupCall.deletedByCount)

====
